---- MODULE Spec2Model ----
(***************************************************************************)
(* A model of the UTCP TypeScript SDK: the client orchestrator             *)
(* (UtcpClient), the in-memory tool repository it writes to, and the       *)
(* session handling of the MCP communication protocol.                     *)
(*                                                                         *)
(* Strings are TLA+ strings; Len, \o and SubSeq act on them character by   *)
(* character, so startsWith / includes / replace are computed as the       *)
(* JavaScript code computes them.                                          *)
(***************************************************************************)
EXTENDS Naturals, Sequences, FiniteSets, TLC

\* ------------------------------------------------------------------ bounds
\* Concurrent client calls in flight (slots are reused once a call settles).
NumCalls == 2
\* Longest tool list a discovery returns.
MaxTools == 2
\* Number of registrations that may draw a random UUID name.
MaxUuid == 1
\* Concurrent MCP operations in flight (slots are reused).
NumOps == 2
\* MCP sessions (client objects) created in one run.
MaxSessions == 3
\* Calls of McpCommunicationProtocol.close() in one run.
MaxCloses == 1
\* Values a caller holds at one time that repository reads returned.
MaxHeld == 2
\* Dotenv files in config.load_variables_from.
MaxLoaders == 2
\* Post-processors in config.post_processing.
MaxProcessors == 2
\* Chunks a protocol's callToolStreaming yields.
MaxChunks == 2
\* Steps in the workflow of a CLI call template.
MaxSteps == 2
\* Tools in the repository that is searched.
MaxSearchTools == 3
\* Concurrent callers of the write operations of the repository.
NumWriters == 3
\* Write operations requested in one run.
MaxWrites == 4
\* Keys built for variables in one run.
MaxKeys == 2

\* ----------------------------------------------------------- string helpers
\* s.startsWith(p)
StartsWith(s, p) == Len(s) >= Len(p) /\ SubSeq(s, 1, Len(p)) = p

\* s.includes(sub)
Includes(s, sub) ==
  \E i \in 1..(Len(s) + 1 - Len(sub)) : SubSeq(s, i, i + Len(sub) - 1) = sub

UpperLetters == "ABCDEFGHIJKLMNOPQRSTUVWXYZ"
LowerLetters == "abcdefghijklmnopqrstuvwxyz"

\* The lower-case letter of each upper-case letter.
LowerCaseOf ==
  [ch \in {SubSeq(UpperLetters, k, k) : k \in 1..Len(UpperLetters)} |->
     LET k == CHOOSE x \in 1..Len(UpperLetters) : SubSeq(UpperLetters, x, x) = ch
     IN SubSeq(LowerLetters, k, k)]

RECURSIVE ToLowerFrom(_, _)
ToLowerFrom(s, i) ==
  IF i > Len(s) THEN ""
  ELSE LET ch == SubSeq(s, i, i)
       IN (IF ch \in DOMAIN LowerCaseOf THEN LowerCaseOf[ch] ELSE ch)
            \o ToLowerFrom(s, i + 1)

\* s.toLowerCase()
ToLower(s) == ToLowerFrom(s, 1)

\* The characters the regular expression class \w matches.
WordChars ==
  {"a","b","c","d","e","f","g","h","i","j","k","l","m","n","o","p","q","r",
   "s","t","u","v","w","x","y","z",
   "A","B","C","D","E","F","G","H","I","J","K","L","M","N","O","P","Q","R",
   "S","T","U","V","W","X","Y","Z",
   "0","1","2","3","4","5","6","7","8","9","_"}

RECURSIVE SanitizeFrom(_, _)
SanitizeFrom(s, i) ==
  IF i > Len(s) THEN ""
  ELSE (IF SubSeq(s, i, i) \in WordChars THEN SubSeq(s, i, i) ELSE "_")
         \o SanitizeFrom(s, i + 1)

\* name.replace(/[^\w]/g, '_')
Sanitize(s) == SanitizeFrom(s, 1)

RECURSIVE UpToDot(_, _)
UpToDot(s, i) ==
  IF i > Len(s) \/ SubSeq(s, i, i) = "." THEN ""
  ELSE SubSeq(s, i, i) \o UpToDot(s, i + 1)

\* toolName.split('.')[0]
ManualNameOf(toolName) == UpToDot(toolName, 1)

\* toolName.split('.').slice(1).join('.')
AfterFirstDot(toolName) ==
  LET n == Len(UpToDot(toolName, 1))
  IN IF n + 2 > Len(toolName) THEN "" ELSE SubSeq(toolName, n + 2, Len(toolName))

\* A mutant of PrefixName: the manual name is always prepended.
PrefixNameAlways(manualName, toolName) == manualName \o "." \o toolName

\* The renaming of one discovered tool in registerManual.
PrefixName(manualName, toolName) ==
  IF ~StartsWith(toolName, manualName \o ".")
  THEN manualName \o "." \o toolName
  ELSE toolName

\* ------------------------------------------------------------ map helpers
\* A JavaScript Map is a function whose domain is the set of its keys.
EmptyMap == [k \in {} |-> 0]
MapSet(m, k, v) == [x \in (DOMAIN m) \cup {k} |-> IF x = k THEN v ELSE m[x]]
MapDelete(m, k) == [x \in (DOMAIN m) \ {k} |-> m[x]]
RECURSIVE MapDeleteAll(_, _)
MapDeleteAll(m, ks) ==
  IF ks = {} THEN m
  ELSE LET k == CHOOSE x \in ks : TRUE IN MapDeleteAll(MapDelete(m, k), ks \ {k})

Range(seq) == {seq[i] : i \in 1..Len(seq)}

\* The maps that give each key of keys either no entry or one of values.
MapsOver(keys, values) ==
  UNION {[present -> values] : present \in SUBSET keys}

\* array.filter(pred) for the predicate "t.name # name"
RECURSIVE FilterOutName(_, _)
FilterOutName(tools, name) ==
  IF tools = <<>> THEN <<>>
  ELSE (IF Head(tools).name # name THEN <<Head(tools)>> ELSE <<>>)
         \o FilterOutName(Tail(tools), name)

\* ------------------------------------------------- variable substitution
\* config.variables of the client
ConfigVariables == [k \in {"KEY"} |-> "secret"]
\* Variables of each dotenv file of config.load_variables_from, in order.
LoaderVariables == <<>>
\* process.env
EnvVariables == EmptyMap

\* m[k] is a non-empty string (the test "if (m[k])").
Truthy(m, k) == k \in DOMAIN m /\ m[k] # ""

RECURSIVE DoubleUnderscoresFrom(_, _)
DoubleUnderscoresFrom(s, i) ==
  IF i > Len(s) THEN ""
  ELSE (IF SubSeq(s, i, i) = "_" THEN "__" ELSE SubSeq(s, i, i))
         \o DoubleUnderscoresFrom(s, i + 1)

\* namespace.replace(/_/g, '__') followed by '__' and the key
EffectiveVarName(key, namespace) ==
  IF namespace # "" THEN DoubleUnderscoresFrom(namespace, 1) \o "__" \o key ELSE key

RECURSIVE LoaderLookup(_, _, _)
LoaderLookup(loaders, effective, key) ==
  IF loaders = <<>> THEN [found |-> FALSE, value |-> ""]
  ELSE IF Truthy(Head(loaders), effective)
         THEN [found |-> TRUE, value |-> Head(loaders)[effective]]
       ELSE IF Truthy(Head(loaders), key)
         THEN [found |-> TRUE, value |-> Head(loaders)[key]]
       ELSE LoaderLookup(Tail(loaders), effective, key)

\* A mutant of GetVariableFrom: the namespaced key is looked up in every
\* source before the bare key is looked up in any.
GetVariableNamespacedFirst(config, loaders, env, key, namespace) ==
  LET effective == EffectiveVarName(key, namespace)
      namespaced == LoaderLookup(loaders, effective, effective)
      bare == LoaderLookup(loaders, key, key)
  IN IF Truthy(config, effective) THEN [found |-> TRUE, value |-> config[effective]]
     ELSE IF namespaced.found THEN namespaced
     ELSE IF Truthy(env, effective) THEN [found |-> TRUE, value |-> env[effective]]
     ELSE IF Truthy(config, key) THEN [found |-> TRUE, value |-> config[key]]
     ELSE IF bare.found THEN bare
     ELSE IF Truthy(env, key) THEN [found |-> TRUE, value |-> env[key]]
     ELSE [found |-> FALSE, value |-> key]

\* DefaultVariableSubstitutor._getVariable over the given sources (the
\* variables of the configuration, the dotenv files in declared order, the
\* process environment); found = FALSE is the throw of
\* UtcpVariableNotFoundError(key).
GetVariableFrom(config, loaders, env, key, namespace) ==
  LET effective == EffectiveVarName(key, namespace)
      fromLoaders == LoaderLookup(loaders, effective, key)
  IN IF Truthy(config, effective)
       THEN [found |-> TRUE, value |-> config[effective]]
     ELSE IF Truthy(config, key)
       THEN [found |-> TRUE, value |-> config[key]]
     ELSE IF fromLoaders.found THEN fromLoaders
     ELSE IF Truthy(env, effective)
       THEN [found |-> TRUE, value |-> env[effective]]
     ELSE IF Truthy(env, key)
       THEN [found |-> TRUE, value |-> env[key]]
     ELSE [found |-> FALSE, value |-> key]

\* _getVariable with the sources of the client under study.
GetVariable(key, namespace) ==
  GetVariableFrom(ConfigVariables, LoaderVariables, EnvVariables, key, namespace)

\* Length of the longest run of [a-zA-Z0-9_] that starts at position i.
RECURSIVE WordRunLen(_, _)
WordRunLen(s, i) ==
  IF i <= Len(s) /\ SubSeq(s, i, i) \in WordChars THEN 1 + WordRunLen(s, i + 1) ELSE 0

\* The match of /\$\{([a-zA-Z0-9_]+)\}|\$([a-zA-Z0-9_]+)/ at position i:
\* len = 0 when the expression does not match there.
TokenAt(s, i) ==
  IF SubSeq(s, i, i) # "$" THEN [len |-> 0, name |-> ""]
  ELSE LET braced == WordRunLen(s, i + 2)
           bare == WordRunLen(s, i + 1)
       IN IF /\ SubSeq(s, i + 1, i + 1) = "{"
             /\ braced >= 1
             /\ SubSeq(s, i + 2 + braced, i + 2 + braced) = "}"
            THEN [len |-> braced + 3, name |-> SubSeq(s, i + 2, i + 1 + braced)]
          ELSE IF bare >= 1
            THEN [len |-> bare + 1, name |-> SubSeq(s, i + 1, i + bare)]
          ELSE [len |-> 0, name |-> ""]

\* DefaultVariableSubstitutor.substitute on a string, from position i on,
\* with the variables of the given sources. ok = FALSE is the throw of
\* UtcpVariableNotFoundError(missing).
RECURSIVE SubstituteIn(_, _, _, _)
SubstituteIn(sources, s, i, namespace) ==
  IF i > Len(s) THEN [ok |-> TRUE, value |-> "", missing |-> ""]
  ELSE LET tok == TokenAt(s, i)
           var == GetVariableFrom(sources.config, sources.loaders, sources.env,
                                  tok.name, namespace)
           rest == SubstituteIn(sources, s, i + (IF tok.len = 0 THEN 1 ELSE tok.len),
                                namespace)
       IN IF tok.len > 0 /\ ~var.found
            THEN [ok |-> FALSE, value |-> "", missing |-> tok.name]
          ELSE IF ~rest.ok THEN rest
          ELSE [ok |-> TRUE,
                value |-> (IF tok.len = 0 THEN SubSeq(s, i, i) ELSE var.value) \o rest.value,
                missing |-> ""]

\* substitute with the sources of the client under study.
SubstituteFrom(s, i, namespace) ==
  SubstituteIn([config |-> ConfigVariables, loaders |-> LoaderVariables,
                env |-> EnvVariables], s, i, namespace)

\* A mutant of SubstituteString: a string with an unresolved token is passed
\* on as it is.
SubstituteStringKeepsUnresolved(s, namespace) ==
  LET r == SubstituteFrom(s, 1, namespace)
  IN IF r.ok THEN r ELSE [ok |-> TRUE, value |-> s, missing |-> ""]

SubstituteString(s, namespace) == SubstituteFrom(s, 1, namespace)

\* UtcpVariableNotFoundError(variableName), as the outcome of a call.
VariableNotFound(variableName) == "variable_not_found:" \o variableName

\* UtcpClient.substituteCallTemplateVariables: every string leaf of the
\* template is substituted; the first unresolved token aborts the call.
SubstituteCallTemplateVariables(tpl, namespace) ==
  LET n == SubstituteString(tpl.name, namespace)
      t == SubstituteString(tpl.call_template_type, namespace)
      u == SubstituteString(tpl.url, namespace)
  IN IF n.ok /\ t.ok /\ u.ok
       THEN [ok |-> TRUE,
             tpl |-> [name |-> n.value, call_template_type |-> t.value, url |-> u.value],
             missing |-> ""]
     ELSE [ok |-> FALSE, tpl |-> tpl,
           missing |-> IF ~n.ok THEN n.missing ELSE IF ~t.ok THEN t.missing ELSE u.missing]

\* ---------------------------------------------------------------- inputs
\* Template names a caller passes; "" stands for a template without a name.
RawNames == {"a-", "a_", ""}

\* Protocol types with an instance in _registeredCommProtocols: the MCP
\* protocol of this repository and a protocol added through the plugin
\* registry.
RegisteredTypes == {"mcp", "plugin"}

\* A template type for which no protocol is registered.
UnknownType == "ghost"

Templates ==
  [name : RawNames, call_template_type : {"plugin"}, url : {"http://h"}]
    \cup [name : {"a_"}, call_template_type : {UnknownType}, url : {"http://h"}]
    \cup [name : {"a_"}, call_template_type : {"mcp"}, url : {"http://${KEY}", "$MISSING"}]

NoTemplate == [name |-> "", call_template_type |-> "", url |-> ""]

\* Tool names a provider may advertise.
DiscoveredNames == {"t", "a_.t"}

RECURSIVE SeqsUpTo(_, _)
SeqsUpTo(S, n) ==
  IF n = 0 THEN {<<>>}
  ELSE LET shorter == SeqsUpTo(S, n - 1)
       IN shorter \cup {Append(s, x) : s \in {q \in shorter : Len(q) = n - 1}, x \in S}

\* Lists of tool names a successful discovery may return.
DiscoveredManuals == SeqsUpTo(DiscoveredNames, MaxTools)

\* crypto.randomUUID(): the k-th value drawn
UuidDigits == <<"1", "2", "3", "4", "5">>
RandomUUID(k) == "0e-" \o UuidDigits[k]

\* Names passed to deregisterManual, and tool names passed to callTool and
\* removeTool.
ManualNameInputs == {"a_", "a-", "0e_1"}
ToolNameInputs == {"a_.t", "0e_1.t", "0e_1.a_.t", ".t"}

\* ----------------------------------------------------------------- state
VARIABLES
  manuals,              \* InMemConcurrentToolRepository._manuals
  manualCallTemplates,  \* InMemConcurrentToolRepository._manualCallTemplates
  toolsByName,          \* InMemConcurrentToolRepository._toolsByName
  calls,                \* the client calls in flight, one record per slot
  uuidCount,            \* number of random UUID names drawn so far
  lastResult,           \* kind and outcome of the call the last step settled
  registeredOk          \* history: names whose registerManual returned
                        \* success with no deregisterManual of the name since

clientVars ==
  <<manuals, manualCallTemplates, toolsByName, calls, uuidCount, lastResult, registeredOk>>

Calls == 1..NumCalls

NoResult == [kind |-> "none", arg |-> "", result |-> "none"]

IdleCall == [kind |-> "none", pc |-> "idle", tpl |-> NoTemplate, arg |-> ""]

\* A caller starts its call in the first free slot.
FirstIdle(c) == calls[c].pc = "idle" /\ \A d \in Calls : d < c => calls[d].pc # "idle"

InitClient ==
  /\ manuals = EmptyMap
  /\ manualCallTemplates = EmptyMap
  /\ toolsByName = EmptyMap
  /\ calls = [c \in Calls |-> IdleCall]
  /\ uuidCount = 0
  /\ lastResult = NoResult
  /\ registeredOk = {}

\* ------------------------------------------------------------ repository
ToolNamesOf(manual) == {manual.tools[i].name : i \in 1..Len(manual.tools)}

RECURSIVE SetTools(_, _)
SetTools(index, tools) ==
  IF tools = <<>> THEN index
  ELSE SetTools(MapSet(index, Head(tools).name, Head(tools)), Tail(tools))

\* A mutant of SaveManual: the tools of the old manual stay in the index.
SaveManualKeepsOldTools(manualCallTemplate, manual) ==
  LET manualName == manualCallTemplate.name
  IN [manualCallTemplates |-> MapSet(manualCallTemplates, manualName, manualCallTemplate),
      manuals |-> MapSet(manuals, manualName, manual),
      toolsByName |-> SetTools(toolsByName, manual.tools)]

\* The write section of saveManual: the three maps after it.
SaveManual(manualCallTemplate, manual) ==
  LET manualName == manualCallTemplate.name
      cleared == IF manualName \in DOMAIN manuals
                   THEN MapDeleteAll(toolsByName, ToolNamesOf(manuals[manualName]))
                   ELSE toolsByName
  IN [manualCallTemplates |-> MapSet(manualCallTemplates, manualName, manualCallTemplate),
      manuals |-> MapSet(manuals, manualName, manual),
      toolsByName |-> SetTools(cleared, manual.tools)]

\* A mutant of RemoveManual: the manual's tools stay in the global index.
RemoveManualKeepsTools(manualName) ==
  IF manualName \notin DOMAIN manuals
    THEN [removed |-> FALSE, manualCallTemplates |-> manualCallTemplates,
          manuals |-> manuals, toolsByName |-> toolsByName]
    ELSE [removed |-> TRUE,
          manualCallTemplates |-> MapDelete(manualCallTemplates, manualName),
          manuals |-> MapDelete(manuals, manualName),
          toolsByName |-> toolsByName]

\* The write section of removeManual: its return value and the maps after it.
RemoveManual(manualName) ==
  IF manualName \notin DOMAIN manuals
    THEN [removed |-> FALSE, manualCallTemplates |-> manualCallTemplates,
          manuals |-> manuals, toolsByName |-> toolsByName]
    ELSE [removed |-> TRUE,
          manualCallTemplates |-> MapDelete(manualCallTemplates, manualName),
          manuals |-> MapDelete(manuals, manualName),
          toolsByName |-> MapDeleteAll(toolsByName, ToolNamesOf(manuals[manualName]))]

\* getManual(name) returns a manual (and not undefined).
HasManual(name) == name \in DOMAIN manuals

\* A mutant of the duplicate check: no manual is ever found.
IsRegisteredNever(name) == FALSE

\* The test of registerManual: "if (await getManual(name))".
IsRegistered(name) == HasManual(name)

\* ---------------------------------------------------- UtcpClient actions
\* The call in slot c settles: its promise resolves or rejects with result.
Settle(c, kind, arg, result) ==
  /\ calls' = [calls EXCEPT ![c] = IdleCall]
  /\ lastResult' = [kind |-> kind, arg |-> arg, result |-> result]

\* The call in slot c goes on as the record next.
Continue(c, next) ==
  /\ calls' = [calls EXCEPT ![c] = next]
  /\ lastResult' = NoResult

\* registerManual up to its first suspension: the name is drawn or
\* sanitized and the repository is asked for a manual of that name.
RegisterStart(c, template) ==
  /\ FirstIdle(c)
  /\ template.name = "" => uuidCount < MaxUuid
  /\ LET raw == IF template.name = "" THEN RandomUUID(uuidCount + 1) ELSE template.name
         name == Sanitize(raw)
     IN /\ uuidCount' = IF template.name = "" THEN uuidCount + 1 ELSE uuidCount
        /\ IF IsRegistered(name)
             THEN Settle(c, "register", name, "duplicate")
             ELSE Continue(c, [kind |-> "register", pc |-> "substitute",
                               tpl |-> [template EXCEPT !.name = name], arg |-> name])
  /\ UNCHANGED <<manuals, manualCallTemplates, toolsByName, registeredOk>>

\* registerManual: the substituted template arrives, the protocol is looked
\* up and its registerManual is called.
RegisterSubstitute(c) ==
  /\ calls[c].kind = "register" /\ calls[c].pc = "substitute"
  /\ LET r == SubstituteCallTemplateVariables(calls[c].tpl, calls[c].tpl.name)
     IN IF ~r.ok THEN Settle(c, "register", calls[c].arg, VariableNotFound(r.missing))
        ELSE IF r.tpl.call_template_type \notin RegisteredTypes
          THEN Settle(c, "register", calls[c].arg, "no_protocol")
        ELSE Continue(c, [calls[c] EXCEPT !.pc = "discover", !.tpl = r.tpl])
  /\ UNCHANGED <<manuals, manualCallTemplates, toolsByName, uuidCount, registeredOk>>

\* The tools of a discovery result after the renaming loop of registerManual.
PrefixedTools(template, names, toolTemplate) ==
  [i \in 1..Len(names) |->
     [name |-> PrefixName(template.name, names[i]), tool_call_template |-> toolTemplate]]

\* The call templates the tools of a discovered manual may carry: the
\* manual's own one (the MCP protocol sets it in every tool), or, with
\* another protocol, one that the provider's manual defines, here with a
\* variable of the configuration and one that no source defines.
ToolTemplates(template) ==
  IF template.call_template_type = "mcp" THEN {template}
  ELSE {template, [template EXCEPT !.url = "http://${KEY}/$MISSING"]}

\* registerManual: the protocol's result arrives with success = true; the
\* tools are renamed and the manual is saved.
RegisterSucceeded(c) ==
  /\ calls[c].kind = "register" /\ calls[c].pc = "discover"
  /\ \E names \in DiscoveredManuals, toolTemplate \in ToolTemplates(calls[c].tpl) :
       LET saved == SaveManual(calls[c].tpl,
                               [tools |-> PrefixedTools(calls[c].tpl, names, toolTemplate)])
       IN /\ manuals' = saved.manuals
          /\ manualCallTemplates' = saved.manualCallTemplates
          /\ toolsByName' = saved.toolsByName
  /\ Settle(c, "register", calls[c].arg, "success")
  /\ registeredOk' = registeredOk \cup {calls[c].arg}
  /\ UNCHANGED uuidCount

\* A mutant of RegisterFailed: the manual of a failed discovery is saved.
RegisterFailedSaves(c) ==
  /\ calls[c].kind = "register" /\ calls[c].pc = "discover"
  /\ LET saved == SaveManual(calls[c].tpl, [tools |-> <<>>])
     IN /\ manuals' = saved.manuals
        /\ manualCallTemplates' = saved.manualCallTemplates
        /\ toolsByName' = saved.toolsByName
  /\ Settle(c, "register", calls[c].arg, "failed")
  /\ UNCHANGED <<uuidCount, registeredOk>>

\* registerManual: the protocol's result arrives with success = false, or
\* the protocol's registerManual rejects.
RegisterFailed(c) ==
  /\ calls[c].kind = "register" /\ calls[c].pc = "discover"
  /\ \E outcome \in {"failed", "threw"} : Settle(c, "register", calls[c].arg, outcome)
  /\ UNCHANGED <<manuals, manualCallTemplates, toolsByName, uuidCount, registeredOk>>

\* How a protocol's deregisterManual may settle.  The protocols of this
\* repository never reject (HTTP, CLI and text do nothing; MCP catches the
\* failure of session.close()); a protocol registered through the plugin
\* registry may.
CleanupOutcomes(type) ==
  IF type = "plugin" THEN {"resolved", "rejected"} ELSE {"resolved"}

\* deregisterManual up to its first suspension.
DeregisterStart(c, manualName) ==
  /\ FirstIdle(c)
  /\ IF manualName \notin DOMAIN manualCallTemplates
       THEN Settle(c, "deregister", manualName, "false")
       ELSE Continue(c, [kind |-> "deregister", pc |-> "cleanup",
                         tpl |-> manualCallTemplates[manualName], arg |-> manualName])
  /\ registeredOk' = registeredOk \ {manualName}
  /\ UNCHANGED <<manuals, manualCallTemplates, toolsByName, uuidCount>>

\* deregisterManual: the protocol's deregisterManual settles (a template
\* type without protocol skips it); removeManual follows unless it rejected.
DeregisterCleanup(c) ==
  /\ calls[c].kind = "deregister" /\ calls[c].pc = "cleanup"
  /\ \E outcome \in (IF calls[c].tpl.call_template_type \in RegisteredTypes
                       THEN CleanupOutcomes(calls[c].tpl.call_template_type)
                       ELSE {"resolved"}) :
       LET r == RemoveManual(calls[c].arg)
       IN IF outcome = "rejected"
            THEN /\ Settle(c, "deregister", calls[c].arg, "rejected")
                 /\ UNCHANGED <<manuals, manualCallTemplates, toolsByName>>
            ELSE /\ Settle(c, "deregister", calls[c].arg, IF r.removed THEN "true" ELSE "false")
                 /\ manuals' = r.manuals
                 /\ manualCallTemplates' = r.manualCallTemplates
                 /\ toolsByName' = r.toolsByName
  /\ registeredOk' = registeredOk \ {calls[c].arg}
  /\ UNCHANGED uuidCount

\* callTool up to its first suspension: the name is split and the tool read.
CallToolStart(c, toolName) ==
  /\ FirstIdle(c)
  /\ IF ManualNameOf(toolName) = ""
       THEN Settle(c, "callTool", toolName, "invalid_name")
     ELSE IF toolName \notin DOMAIN toolsByName
       THEN Settle(c, "callTool", toolName, "tool_not_found")
     ELSE Continue(c, [kind |-> "callTool", pc |-> "template",
                       tpl |-> toolsByName[toolName].tool_call_template,
                       arg |-> toolName])
  /\ UNCHANGED <<manuals, manualCallTemplates, toolsByName, uuidCount, registeredOk>>

\* A mutant of CallToolDispatch: the manual's call template is not looked up.
CallToolDispatchWithoutTemplate(c) ==
  /\ calls[c].kind = "callTool" /\ calls[c].pc = "template"
  /\ LET r == SubstituteCallTemplateVariables(calls[c].tpl, ManualNameOf(calls[c].arg))
     IN IF ~r.ok THEN Settle(c, "callTool", calls[c].arg, VariableNotFound(r.missing))
        ELSE IF r.tpl.call_template_type \notin RegisteredTypes
          THEN Settle(c, "callTool", calls[c].arg, "no_protocol")
        ELSE Continue(c, [calls[c] EXCEPT !.pc = "invoke", !.tpl = r.tpl])
  /\ UNCHANGED <<manuals, manualCallTemplates, toolsByName, uuidCount, registeredOk>>

\* callTool: the manual's call template is read, the tool's call template
\* substituted and the protocol's callTool called.
CallToolDispatch(c) ==
  /\ calls[c].kind = "callTool" /\ calls[c].pc = "template"
  /\ LET r == SubstituteCallTemplateVariables(calls[c].tpl, ManualNameOf(calls[c].arg))
     IN IF ManualNameOf(calls[c].arg) \notin DOMAIN manualCallTemplates
          THEN Settle(c, "callTool", calls[c].arg, "template_not_found")
        ELSE IF ~r.ok THEN Settle(c, "callTool", calls[c].arg, VariableNotFound(r.missing))
        ELSE IF r.tpl.call_template_type \notin RegisteredTypes
          THEN Settle(c, "callTool", calls[c].arg, "no_protocol")
        ELSE Continue(c, [calls[c] EXCEPT !.pc = "invoke", !.tpl = r.tpl])
  /\ UNCHANGED <<manuals, manualCallTemplates, toolsByName, uuidCount, registeredOk>>

\* callTool: the protocol's callTool settles.
CallToolSettled(c) ==
  /\ calls[c].kind = "callTool" /\ calls[c].pc = "invoke"
  /\ \E outcome \in {"ok", "error"} : Settle(c, "callTool", calls[c].arg, outcome)
  /\ UNCHANGED <<manuals, manualCallTemplates, toolsByName, uuidCount, registeredOk>>

\* InMemConcurrentToolRepository.removeTool, called on the client's
\* repository.
RemoveTool(toolName) ==
  /\ toolName \in DOMAIN toolsByName
  /\ toolsByName' = MapDelete(toolsByName, toolName)
  /\ manuals' =
       IF ManualNameOf(toolName) # "" /\ ManualNameOf(toolName) \in DOMAIN manuals
         THEN [manuals EXCEPT ![ManualNameOf(toolName)] =
                 [tools |-> FilterOutName(@.tools, toolName)]]
         ELSE manuals
  /\ lastResult' = NoResult
  /\ UNCHANGED <<manualCallTemplates, calls, uuidCount, registeredOk>>

\* ------------------------------------- the repository, called directly
\* Manual names and call templates given to saveManual.
RepoManualNames == {"a_", "b"}

RepoTemplates ==
  [name : RepoManualNames, call_template_type : {"plugin"}, url : {"http://h", "http://g"}]

\* Local names of the tools of a manual; a stored tool is named
\* "<manual>.<local name>".
RepoLocalNames == {"t", "u"}

\* The manuals saveManual may be given for the call template.
RepoManualsFor(template) ==
  {[tools |-> [i \in 1..Len(names) |->
                 [name |-> template.name \o "." \o names[i],
                  tool_call_template |-> template]]] :
     names \in SeqsUpTo(RepoLocalNames, MaxTools)}

\* Tool names given to removeTool.
RepoToolNames ==
  {m \o "." \o l : m \in RepoManualNames, l \in RepoLocalNames} \cup {"t", "c.t"}

\* saveManual(manualCallTemplate, manual)
RepoSaveManual(manualCallTemplate, manual) ==
  /\ LET r == SaveManual(manualCallTemplate, manual)
     IN /\ manuals' = r.manuals
        /\ manualCallTemplates' = r.manualCallTemplates
        /\ toolsByName' = r.toolsByName
  /\ lastResult' = [kind |-> "saveManual", arg |-> manualCallTemplate.name,
                    result |-> IF HasManual(manualCallTemplate.name)
                                 THEN "replaced" ELSE "added"]
  /\ UNCHANGED <<calls, uuidCount, registeredOk>>

\* removeManual(manualName)
RepoRemoveManual(manualName) ==
  /\ LET r == RemoveManual(manualName)
     IN /\ manuals' = r.manuals
        /\ manualCallTemplates' = r.manualCallTemplates
        /\ toolsByName' = r.toolsByName
        /\ lastResult' = [kind |-> "removeManual", arg |-> manualName,
                          result |-> IF r.removed THEN "true" ELSE "false"]
  /\ UNCHANGED <<calls, uuidCount, registeredOk>>

\* A mutant of RemoveToolWrite: the tool stays in its manual's tool list.
RemoveToolIndexOnly(toolName) ==
  IF toolName \notin DOMAIN toolsByName
    THEN [removed |-> FALSE, manuals |-> manuals, toolsByName |-> toolsByName]
    ELSE [removed |-> TRUE, manuals |-> manuals,
          toolsByName |-> MapDelete(toolsByName, toolName)]

\* The write section of removeTool: its return value and the maps after it.
RemoveToolWrite(toolName) ==
  IF toolName \notin DOMAIN toolsByName
    THEN [removed |-> FALSE, manuals |-> manuals, toolsByName |-> toolsByName]
    ELSE [removed |-> TRUE,
          manuals |->
            IF ManualNameOf(toolName) # "" /\ ManualNameOf(toolName) \in DOMAIN manuals
              THEN [manuals EXCEPT ![ManualNameOf(toolName)] =
                      [tools |-> FilterOutName(@.tools, toolName)]]
              ELSE manuals,
          toolsByName |-> MapDelete(toolsByName, toolName)]

\* removeTool(toolName)
RepoRemoveTool(toolName) ==
  /\ LET r == RemoveToolWrite(toolName)
     IN /\ manuals' = r.manuals
        /\ toolsByName' = r.toolsByName
        /\ lastResult' = [kind |-> "removeTool", arg |-> toolName,
                          result |-> IF r.removed THEN "true" ELSE "false"]
  /\ UNCHANGED <<manualCallTemplates, calls, uuidCount, registeredOk>>

\* ------------------------------------------- MCP protocol: the sessions
VARIABLES
  mcpSessions,   \* McpCommunicationProtocol._mcpSessions: session key -> session
  sessions,      \* every McpClient created so far: the key it was created
                 \* for and its connection state
  ops,           \* the operations in flight (_withSession)
  lastOp,        \* what the operation the last step settled did
  keyHistory,    \* history, per session key: "fresh" (no operation has
                 \* settled), "settled", or "dirty" (operations overlapped,
                 \* one failed with an error classified as a connection error,
                 \* or close() cleaned the key up)
  oauthTokens,   \* McpCommunicationProtocol._oauthTokens: the client ids that
                 \* have a cached token
  closeCall      \* the call of close() in flight, and how many have completed

mcpVars == <<mcpSessions, sessions, ops, lastOp, keyHistory, oauthTokens, closeCall>>

\* The sub-servers of the registered MCP manuals.
McpServers ==
  {[name |-> "fs", transport |-> "stdio"],
   [name |-> "closedb", transport |-> "http"]}

\* `${serverName}:${serverConfig.transport}`
SessionKey(serverName, transport) == serverName \o ":" \o transport

SessionKeys == {SessionKey(sv.name, sv.transport) : sv \in McpServers}

\* mcpCallTemplate.auth.client_id of the manual of the http sub-server.
OAuthClientId == "cid"

\* The keys whose session set-up fetches an OAuth2 token first: the http
\* sub-servers of a manual that has auth.
NeedsToken(key) == key = SessionKey("closedb", "http")

\* The message _handleOAuth2 throws when both token requests fail.
OAuthErrorMessage ==
  "Failed to fetch OAuth2 token for client '" \o OAuthClientId
    \o "': Network Error; Network Error"

\* Messages of the errors the MCP SDK and its transports raise.
SdkErrorMessages == {"MCP error -32000: Connection closed", "Invalid params"}

\* The message of the error the timer of _withSession rejects with.
TimeoutMessage(sessionKey) ==
  "MCP operation on '" \o sessionKey \o "' timed out after 15s."

\* A mutant of IsConnectionError: every error is retried.
IsConnectionErrorAlways(message) == TRUE

\* The test of _withSession's catch block on e.message.
IsConnectionError(message) ==
  LET errorMsg == ToLower(message)
  IN \/ Includes(errorMsg, "closed")
     \/ Includes(errorMsg, "disconnected")
     \/ Includes(errorMsg, "econnreset")
     \/ Includes(errorMsg, "etimedout")

Ops == 1..NumOps

IdleOp ==
  [pc |-> "idle", key |-> "", phase |-> 0, client |-> 0,
   tries |-> 0, retries |-> 0, built |-> 0, rebuilds |-> 0, firstError |-> ""]

NoOp ==
  [key |-> "", result |-> "none", phase |-> 0, client |-> 0,
   tries |-> 0, retries |-> 0, built |-> 0, rebuilds |-> 0, firstError |-> ""]

\* No close() in flight, none completed.
IdleClose == [pc |-> "idle", pending |-> {}, targets |-> {}, completed |-> 0]

InitMcp ==
  /\ mcpSessions = EmptyMap
  /\ sessions = <<>>
  /\ ops = [o \in Ops |-> IdleOp]
  /\ lastOp = NoOp
  /\ keyHistory = [k \in SessionKeys |-> "fresh"]
  /\ oauthTokens = {}
  /\ closeCall = IdleClose

FirstIdleOp(o) == ops[o].pc = "idle" /\ \A d \in Ops : d < o => ops[d].pc # "idle"

\* Another operation on the key is in flight.
Overlaps(o, key) == \E d \in Ops \ {o} : ops[d].pc # "idle" /\ ops[d].key = key

\* A mutant of HasSession: the cache is never consulted.
HasSessionNever(key) == FALSE

\* this._mcpSessions.has(sessionKey)
HasSession(key) == key \in DOMAIN mcpSessions

\* The operation whose record is op settles with the result.
SettleOp(o, op, result) ==
  /\ ops' = [ops EXCEPT ![o] = IdleOp]
  /\ lastOp' = [key |-> op.key, result |-> result, phase |-> op.phase,
                client |-> op.client, tries |-> op.tries, retries |-> op.retries,
                built |-> op.built, rebuilds |-> op.rebuilds,
                firstError |-> op.firstError]
  /\ keyHistory' = [keyHistory EXCEPT ![op.key] =
                      IF @ = "fresh" THEN "settled" ELSE @]

\* The rest of _getOrCreateSession once the cache has no session for the
\* key: an http sub-server with auth first awaits _handleOAuth2, which returns
\* a cached token that has not expired (tokenValid) at once; then a new
\* client is created and its connection started.
CreateSession(op, sessionsNow, tokenValid) ==
  IF NeedsToken(op.key) /\ ~(OAuthClientId \in oauthTokens /\ tokenValid)
    THEN [op |-> [op EXCEPT !.pc = "oauth", !.client = 0], sessions |-> sessionsNow]
    ELSE [op |-> [op EXCEPT !.pc = "connect", !.client = Len(sessionsNow) + 1],
          sessions |-> Append(sessionsNow, [key |-> op.key, state |-> "connecting"])]

\* _getOrCreateSession up to its first suspension, for the operation record
\* op: the cached session is returned, or a new one is set up.  Gives the
\* operation record and the sessions after.
GetOrCreateSession(op, sessionsNow, tokenValid) ==
  IF HasSession(op.key)
    THEN [op |-> [op EXCEPT !.pc = "run", !.client = mcpSessions[op.key]],
          sessions |-> sessionsNow]
    ELSE CreateSession(op, sessionsNow, tokenValid)

\* A callTool or the discovery of one sub-server enters _withSession.
WithSessionStart(o, key) ==
  /\ FirstIdleOp(o)
  /\ ~HasSession(key) => Len(sessions) < MaxSessions
  /\ \E tokenValid \in BOOLEAN :
       LET r == GetOrCreateSession([IdleOp EXCEPT !.key = key, !.phase = 1],
                                   sessions, tokenValid)
       IN /\ ops' = [ops EXCEPT ![o] = r.op]
          /\ sessions' = r.sessions
  /\ keyHistory' = [keyHistory EXCEPT ![key] = IF Overlaps(o, key) THEN "dirty" ELSE @]
  /\ lastOp' = NoOp
  /\ UNCHANGED <<mcpSessions, oauthTokens, closeCall>>

\* _handleOAuth2 resolves: the token is cached, a client is created and its
\* connection started.
OAuthResolved(o) ==
  /\ ops[o].pc = "oauth"
  /\ Len(sessions) < MaxSessions
  /\ oauthTokens' = oauthTokens \cup {OAuthClientId}
  /\ ops' = [ops EXCEPT ![o].pc = "connect", ![o].client = Len(sessions) + 1]
  /\ sessions' = Append(sessions, [key |-> ops[o].key, state |-> "connecting"])
  /\ lastOp' = NoOp
  /\ UNCHANGED <<mcpSessions, keyHistory, closeCall>>

\* mcpClient.connect(transport) resolves: the session is cached.
ConnectResolved(o) ==
  /\ ops[o].pc = "connect"
  /\ sessions' = [sessions EXCEPT ![ops[o].client].state = "connected"]
  /\ mcpSessions' = MapSet(mcpSessions, ops[o].key, ops[o].client)
  /\ ops' = [ops EXCEPT ![o].pc = "run", ![o].built = @ + 1,
                         ![o].rebuilds = IF ops[o].phase = 2 THEN @ + 1 ELSE @]
  /\ lastOp' = NoOp
  /\ UNCHANGED <<keyHistory, oauthTokens, closeCall>>

\* The catch block of _withSession for the error message of the operation
\* in slot o, whose record is op.  The first failure is rethrown unless it is
\* a connection error; then _cleanupSession awaits session.close() when a
\* session is cached, and otherwise _getOrCreateSession follows at once.  The
\* second failure is never caught.
Catch(o, op, message, sessionsNow) ==
  IF op.phase = 2 \/ ~IsConnectionError(message)
    THEN /\ SettleOp(o, [op EXCEPT !.firstError = IF op.phase = 1 THEN message ELSE @],
                     IF message = TimeoutMessage(op.key) THEN "timeout" ELSE "failed")
         /\ sessions' = sessionsNow
    ELSE /\ lastOp' = NoOp
         /\ keyHistory' = [keyHistory EXCEPT ![op.key] = "dirty"]
         /\ IF HasSession(op.key)
              THEN /\ ops' = [ops EXCEPT ![o] =
                        [op EXCEPT !.pc = "closing", !.phase = 2,
                                   !.client = mcpSessions[op.key],
                                   !.firstError = message]]
                   /\ sessions' = sessionsNow
              ELSE /\ Len(sessionsNow) < MaxSessions
                   /\ \E tokenValid \in BOOLEAN :
                        LET r == GetOrCreateSession(
                                   [op EXCEPT !.phase = 2, !.firstError = message],
                                   sessionsNow, tokenValid)
                        IN /\ ops' = [ops EXCEPT ![o] = r.op]
                           /\ sessions' = r.sessions

\* operation(client) has been called for the operation record op.
Attempted(op) ==
  [op EXCEPT !.tries = @ + 1, !.retries = IF op.phase = 2 THEN @ + 1 ELSE @]

\* _handleOAuth2 rejects: both token requests failed.
OAuthRejected(o) ==
  /\ ops[o].pc = "oauth"
  /\ Catch(o, ops[o], OAuthErrorMessage, sessions)
  /\ UNCHANGED <<mcpSessions, oauthTokens, closeCall>>

\* mcpClient.connect(transport) rejects.
ConnectRejected(o) ==
  /\ ops[o].pc = "connect"
  /\ \E message \in SdkErrorMessages :
       Catch(o, ops[o], message, [sessions EXCEPT ![ops[o].client].state = "failed"])
  /\ UNCHANGED <<mcpSessions, oauthTokens, closeCall>>

\* operation(client) wins the race and resolves; a closed client cannot
\* answer.
RunResolved(o) ==
  /\ ops[o].pc = "run"
  /\ sessions[ops[o].client].state = "connected"
  /\ SettleOp(o, Attempted(ops[o]), "ok")
  /\ UNCHANGED <<mcpSessions, sessions, oauthTokens, closeCall>>

\* operation(client) wins the race and rejects.
RunRejected(o) ==
  /\ ops[o].pc = "run"
  /\ \E message \in SdkErrorMessages :
       Catch(o, Attempted(ops[o]), message, sessions)
  /\ UNCHANGED <<mcpSessions, oauthTokens, closeCall>>

\* The 15 s timer wins the race.
RunTimedOut(o) ==
  /\ ops[o].pc = "run"
  /\ Catch(o, Attempted(ops[o]), TimeoutMessage(ops[o].key), sessions)
  /\ UNCHANGED <<mcpSessions, oauthTokens, closeCall>>

\* _cleanupSession after the await of session.close(), which resolved or
\* rejected (the rejection is caught and logged): the key is deleted, and
\* _withSession goes on to _getOrCreateSession, which finds no session.
CleanupClosed(o) ==
  /\ ops[o].pc = "closing"
  /\ Len(sessions) < MaxSessions
  /\ \E outcome \in {"closed", "close_failed"}, tokenValid \in BOOLEAN :
       LET r == CreateSession(ops[o],
                              [sessions EXCEPT ![ops[o].client].state = outcome],
                              tokenValid)
       IN /\ ops' = [ops EXCEPT ![o] = r.op]
          /\ sessions' = r.sessions
  /\ mcpSessions' = MapDelete(mcpSessions, ops[o].key)
  /\ lastOp' = NoOp
  /\ UNCHANGED <<keyHistory, oauthTokens, closeCall>>

\* A mutant of CloseStart's snapshot: no key is cleaned up.
CachedKeysNone == {}

\* Array.from(this._mcpSessions.keys())
CachedKeys == DOMAIN mcpSessions

\* close() up to its first suspension: _cleanupSession is called for every
\* cached key, and each awaits session.close().  With no cached key the join
\* resolves at once and the token cache is cleared.
CloseStart ==
  /\ closeCall.pc = "idle" /\ closeCall.completed < MaxCloses
  /\ IF CachedKeys = {}
       THEN /\ oauthTokens' = {}
            /\ closeCall' = [closeCall EXCEPT !.completed = @ + 1]
       ELSE /\ closeCall' = [closeCall EXCEPT !.pc = "closing", !.pending = CachedKeys,
                               !.targets = {mcpSessions[k] : k \in DOMAIN mcpSessions}]
            /\ UNCHANGED oauthTokens
  /\ keyHistory' = [k \in SessionKeys |->
                      IF k \in CachedKeys THEN "dirty" ELSE keyHistory[k]]
  /\ lastOp' = NoOp
  /\ UNCHANGED <<mcpSessions, sessions, ops>>

\* One _cleanupSession of close() after its await of session.close(): the key
\* is deleted.  After the last one the join resolves, the token cache is
\* cleared and close() returns.
CloseSettled(key) ==
  /\ closeCall.pc = "closing" /\ key \in closeCall.pending
  /\ \E outcome \in {"closed", "close_failed"} :
       sessions' = [s \in 1..Len(sessions) |->
                      IF s \in closeCall.targets /\ sessions[s].key = key
                        THEN [sessions[s] EXCEPT !.state = outcome]
                        ELSE sessions[s]]
  /\ mcpSessions' = MapDelete(mcpSessions, key)
  /\ IF closeCall.pending = {key}
       THEN /\ oauthTokens' = {}
            /\ closeCall' = [IdleClose EXCEPT !.completed = closeCall.completed + 1]
       ELSE /\ closeCall' = [closeCall EXCEPT !.pending = @ \ {key}]
            /\ UNCHANGED oauthTokens
  /\ lastOp' = NoOp
  /\ UNCHANGED <<ops, keyHistory>>

\* ------------------------------------- MCP tools: from discovery to call
VARIABLES
  routeManual,   \* the registered MCP manual: its name and its sub-servers
  routeTools,    \* the tools stored for it, each with the sub-server that
                 \* advertised it and the name it has there
  routeCall      \* what the last callTool did

routeVars == <<routeManual, routeTools, routeCall>>

\* Names of MCP manuals, as the caller gives them.
RouteManualNames == {"fs", "m", "x-y"}

\* Keys of mcpCallTemplate.config.mcpServers.
RouteServerNames == {"fs", "m", "db"}

\* Names of tools as an MCP server lists them.
RouteLocalNames == {"t", "r.w"}

NoRouteManual == [name |-> "", servers |-> {}]

NoRouteCall == [name |-> "", outcome |-> "none", server |-> "", tool |-> ""]

InitRoute ==
  /\ routeManual = NoRouteManual
  /\ routeTools = {}
  /\ routeCall = NoRouteCall

\* The name McpCommunicationProtocol.registerManual gives a discovered tool.
McpToolName(serverName, localName) == serverName \o "." \o localName

\* client.registerManual of an MCP manual whose sub-servers advertise the
\* given tools: the protocol names each tool after its sub-server, the client
\* prefixes the manual name, and the tools are stored.
RouteRegister(name, servers, advertised) ==
  /\ routeManual = NoRouteManual
  /\ routeManual' = [name |-> Sanitize(name), servers |-> servers]
  /\ routeTools' =
       {[name |-> PrefixName(Sanitize(name), McpToolName(sv, local)),
         server |-> sv, local |-> local] :
          sv \in servers, local \in advertised}
  /\ routeCall' = NoRouteCall

\* McpCommunicationProtocol.callTool up to _withSession: the sub-server and
\* the tool name are taken from the tool name the client passes.
McpResolve(toolName, servers) ==
  LET serverName == UpToDot(toolName, 1)
      actualToolName == AfterFirstDot(toolName)
  IN IF serverName = "" \/ actualToolName = ""
       THEN [outcome |-> "invalid_name", server |-> "", tool |-> ""]
     ELSE IF serverName \notin servers
       THEN [outcome |-> "server_not_found", server |-> "", tool |-> ""]
     ELSE [outcome |-> "executed", server |-> serverName, tool |-> actualToolName]

\* client.callTool of a stored tool: the tool and the manual's call template
\* are looked up, and the protocol is given the stored name.
RouteCall(t) ==
  /\ t \in routeTools
  /\ routeCall' =
       IF ManualNameOf(t.name) = "" THEN [NoRouteCall EXCEPT !.name = t.name,
                                                             !.outcome = "invalid_name"]
       ELSE IF ManualNameOf(t.name) # routeManual.name
         THEN [NoRouteCall EXCEPT !.name = t.name, !.outcome = "template_not_found"]
       ELSE LET r == McpResolve(t.name, routeManual.servers)
            IN [name |-> t.name, outcome |-> r.outcome, server |-> r.server,
                tool |-> r.tool]
  /\ UNCHANGED <<routeManual, routeTools>>

\* client.deregisterManual of the MCP manual.
RouteDeregister ==
  /\ routeManual # NoRouteManual
  /\ routeManual' = NoRouteManual
  /\ routeTools' = {}
  /\ routeCall' = NoRouteCall

\* ------------------------------- the repository: what its reads return
\* Objects are records of their own fields; a field that holds an object or
\* an array holds a reference into copyHeap.  A tool has scalar fields (its
\* description) and nested ones (tags, inputs, outputs, tool_call_template);
\* a call template has scalar fields (url) and nested ones (headers, auth).
VARIABLES
  copyHeap,     \* the nested objects: reference -> contents
  copyStored,   \* what the repository's maps hold: the tool and the manual's
                \* call template, each with its scalar field and the
                \* reference of its nested field
  copyHeld      \* the values that reads returned and the caller still holds

copyVars == <<copyHeap, copyStored, copyHeld>>

\* Contents of scalar and of nested fields.
ScalarValues == {"p", "q"}
NestedValues == {"n", "x"}

\* The read accessors and the stored object each returns copies of.
Accessors ==
  [getTool |-> "tool", getTools |-> "tool", getToolsByManual |-> "tool",
   getManual |-> "tool", getManualCallTemplate |-> "template"]

InitCopy ==
  /\ copyHeap = <<>>
  /\ copyStored = EmptyMap
  /\ copyHeld = {}

\* { ...obj }: a new object with the same field values; a nested field of the
\* copy holds the same reference as the original's.
SpreadCopy(obj) == [scalar |-> obj.scalar, nested |-> obj.nested]

\* saveManual of a manual with one tool: the caller's tool and call template
\* objects, with their nested objects, are created and spread copies of them
\* are stored.
CopySaveManual(toolScalar, toolNested, tplScalar, tplNested) ==
  /\ copyStored = EmptyMap
  /\ copyHeap' = copyHeap \o <<toolNested, tplNested>>
  /\ copyStored' =
       [k \in {"tool", "template"} |->
          IF k = "tool"
            THEN SpreadCopy([scalar |-> toolScalar, nested |-> Len(copyHeap) + 1])
            ELSE SpreadCopy([scalar |-> tplScalar, nested |-> Len(copyHeap) + 2])]
  /\ copyHeld' = {}

\* A read accessor returns a spread copy of the stored object.
CopyRead(accessor) ==
  /\ copyStored # EmptyMap
  /\ Cardinality(copyHeld) < MaxHeld
  /\ copyHeld' = copyHeld \cup
       {[via |-> accessor, object |-> SpreadCopy(copyStored[Accessors[accessor]])]}
  /\ UNCHANGED <<copyHeap, copyStored>>

\* The caller assigns a scalar field of a returned value.
CallerSetsScalar(h, v) ==
  /\ h \in copyHeld /\ h.object.scalar # v
  /\ copyHeld' = (copyHeld \ {h}) \cup {[h EXCEPT !.object.scalar = v]}
  /\ UNCHANGED <<copyHeap, copyStored>>

\* The caller mutates the nested object of a returned value in place
\* (e.g. returned.tags.push(...)).
CallerMutatesNested(h, v) ==
  /\ h \in copyHeld /\ copyHeap[h.object.nested] # v
  /\ copyHeap' = [copyHeap EXCEPT ![h.object.nested] = v]
  /\ UNCHANGED <<copyStored, copyHeld>>

\* removeManual: the stored objects are dropped.
CopyRemoveManual ==
  /\ copyStored # EmptyMap
  /\ copyStored' = EmptyMap
  /\ copyHeap' = <<>>
  /\ copyHeld' = {}

\* ----------------------------------------------- UtcpClient.registerManuals
VARIABLE
  batchCall    \* the registerManuals call: its input templates, per template
               \* the slot of its registerManual call (0: none) and what its
               \* callback returned, and how the joined promise settled

batchVars == <<batchCall>>

NoBatch == [templates |-> <<>>, slots |-> <<>>, results |-> <<>>, outcome |-> "none"]

\* The entry of a template whose callback has not returned: state is
\* "unstarted" or "pending".
NoBatchResult(state) == [state |-> state, name |-> "", success |-> FALSE, errors |-> <<>>]

InitBatch == batchCall = NoBatch

\* Lists of templates passed to registerManuals.
BatchInputs == {b \in SeqsUpTo(Templates, NumCalls) : Len(b) > 0}

\* A mutant of BatchCallback: what registerManual throws is thrown on.
BatchCallbackRethrows(settled) ==
  IF settled.result = "success"
    THEN [state |-> "returned", name |-> settled.arg, success |-> TRUE, errors |-> <<>>]
  ELSE IF settled.result = "failed"
    THEN [state |-> "returned", name |-> settled.arg, success |-> FALSE,
          errors |-> <<"discovery failed">>]
  ELSE [state |-> "rejected", name |-> settled.arg, success |-> FALSE, errors |-> <<>>]

\* The callback of the map in registerManuals: the result of registerManual
\* is returned (a failed discovery carries the protocol's errors), what it
\* throws is caught and returned as a failed result with the error's message.
BatchCallback(settled) ==
  IF settled.result = "success"
    THEN [state |-> "returned", name |-> settled.arg, success |-> TRUE, errors |-> <<>>]
  ELSE IF settled.result = "failed"
    THEN [state |-> "returned", name |-> settled.arg, success |-> FALSE,
          errors |-> <<"discovery failed">>]
  ELSE [state |-> "returned", name |-> settled.arg, success |-> FALSE,
        errors |-> <<settled.result>>]

\* What an item's callback has returned once the step has settled its call.
BatchCollect(i, slot) ==
  batchCall' =
    IF lastResult'.kind = "register"
      THEN [batchCall EXCEPT !.slots[i] = 0, !.results[i] = BatchCallback(lastResult')]
      ELSE [batchCall EXCEPT !.slots[i] = slot]

\* registerManuals is called.
BatchStart(templates) ==
  /\ batchCall = NoBatch
  /\ batchCall' = [templates |-> templates,
                   slots |-> [i \in 1..Len(templates) |-> 0],
                   results |-> [i \in 1..Len(templates) |-> NoBatchResult("unstarted")],
                   outcome |-> "pending"]
  /\ UNCHANGED clientVars

\* The map calls the callback for the i-th template: registerManual runs up to
\* its first suspension.
BatchItemStart(i) ==
  /\ i \in 1..Len(batchCall.templates)
  /\ batchCall.results[i].state = "unstarted"
  /\ \A j \in 1..(i - 1) : batchCall.results[j].state # "unstarted"
  /\ \E c \in Calls :
       /\ RegisterStart(c, batchCall.templates[i])
       /\ LET started == [batchCall EXCEPT !.results[i] = NoBatchResult("pending")]
          IN batchCall' =
               IF lastResult'.kind = "register"
                 THEN [started EXCEPT !.results[i] = BatchCallback(lastResult')]
                 ELSE [started EXCEPT !.slots[i] = c]

\* The registerManual call of the i-th template takes its next step.
BatchItemStep(i) ==
  /\ i \in 1..Len(batchCall.templates)
  /\ batchCall.slots[i] # 0
  /\ LET c == batchCall.slots[i]
     IN /\ RegisterSubstitute(c) \/ RegisterSucceeded(c) \/ RegisterFailed(c)
        /\ BatchCollect(i, c)

\* Promise.all: fulfilled with the callbacks' results in input order once
\* every one has returned, rejected if one of them has thrown.
BatchSettled ==
  /\ batchCall.outcome = "pending"
  /\ \A i \in 1..Len(batchCall.templates) :
       batchCall.results[i].state \notin {"unstarted", "pending"}
  /\ batchCall' =
       [batchCall EXCEPT !.outcome =
          IF \E i \in 1..Len(batchCall.templates) : batchCall.results[i].state = "rejected"
            THEN "rejected" ELSE "resolved"]
  /\ UNCHANGED clientVars

\* ------------------------------------ registerManual of the protocols
VARIABLE
  discovery    \* one registerManual call of a protocol: the sub-servers still
               \* to ask, allTools and allErrors so far, whether a discovery
               \* failure was met (history), and the returned result

NoDiscovery ==
  [protocol |-> "none", state |-> "idle", pending |-> <<>>, allTools |-> <<>>,
   allErrors |-> <<>>, failureMet |-> FALSE,
   result |-> [success |-> FALSE, errors |-> <<>>, tools |-> <<>>]]

InitDiscover == discovery = NoDiscovery

\* Object.entries(config.mcpServers) of the templates passed in.
McpServerLists == {<<>>, <<"fs">>, <<"db">>, <<"fs", "db">>, <<"db", "fs">>}

\* What asking one provider for its tools may end in: a list of tool names,
\* or a failure with its message.
DiscoveryOutcomes ==
  [ok : {TRUE}, tools : SeqsUpTo({"t", "u"}, MaxTools), message : {""}]
    \cup [ok : {FALSE}, tools : {<<>>},
          message : {"connect ECONNREFUSED", "Invalid response format from listTools"}]

\* The return statement of McpCommunicationProtocol.registerManual.
McpRegisterResult(allTools, allErrors) ==
  [success |-> Len(allErrors) = 0, errors |-> allErrors, tools |-> allTools]

\* McpCommunicationProtocol.registerManual up to the first listTools; a
\* template without servers returns at once.
McpRegisterStart(servers) ==
  /\ discovery.state # "running"
  /\ discovery' =
       IF servers = <<>>
         THEN [NoDiscovery EXCEPT !.protocol = "mcp", !.state = "returned",
                 !.result = [success |-> FALSE, tools |-> <<>>,
                             errors |-> <<"MCP call template has no servers configured.">>]]
         ELSE [NoDiscovery EXCEPT !.protocol = "mcp", !.state = "running",
                                  !.pending = servers]

\* One turn of the loop over the servers: _withSession(listTools) settles;
\* the tools are appended under the server's name, or the error is
\* appended; after the last server the result is returned.
McpRegisterServer(outcome) ==
  /\ discovery.protocol = "mcp" /\ discovery.state = "running"
  /\ LET serverName == Head(discovery.pending)
         allTools == IF outcome.ok
                       THEN discovery.allTools \o
                              [i \in 1..Len(outcome.tools) |->
                                 serverName \o "." \o outcome.tools[i]]
                       ELSE discovery.allTools
         allErrors == IF outcome.ok THEN discovery.allErrors
                      ELSE Append(discovery.allErrors,
                                  "Server '" \o serverName \o "': " \o outcome.message)
         rest == Tail(discovery.pending)
     IN discovery' =
          [discovery EXCEPT
             !.pending = rest, !.allTools = allTools, !.allErrors = allErrors,
             !.failureMet = discovery.failureMet \/ ~outcome.ok,
             !.state = IF rest = <<>> THEN "returned" ELSE "running",
             !.result = IF rest = <<>> THEN McpRegisterResult(allTools, allErrors)
                        ELSE discovery.result]

\* CliCommunicationProtocol.registerManual up to the discovery script.
CliRegisterStart ==
  /\ discovery.state # "running"
  /\ discovery' = [NoDiscovery EXCEPT !.protocol = "cli", !.state = "running"]

\* CliCommunicationProtocol.registerManual: the script has ended; a parsed
\* manual is returned, everything else goes through the catch.
CliRegisterSettled(outcome) ==
  /\ discovery.protocol = "cli" /\ discovery.state = "running"
  /\ discovery' =
       [discovery EXCEPT
          !.state = "returned", !.failureMet = ~outcome.ok,
          !.result = IF outcome.ok
                       THEN [success |-> TRUE, errors |-> <<>>, tools |-> outcome.tools]
                       ELSE [success |-> FALSE, errors |-> <<outcome.message>>,
                             tools |-> <<>>]]

\* ------------------------------------------- variable lookup, by source
VARIABLE
  lookup    \* one call of _getVariable("X", config, "NS"): the sources it
            \* was given and what it returned or threw

NoLookup ==
  [config |-> EmptyMap, loaders |-> <<>>, env |-> EmptyMap,
   result |-> [found |-> FALSE, value |-> ""]]

InitLookup == lookup = NoLookup

\* config.variables, the parsed dotenv files and process.env of a call: a
\* value may be the empty string (X= in a dotenv file, an empty environment
\* variable).
LookupConfigs == MapsOver({"NS__X", "X"}, {"config", ""})
LookupFiles == MapsOver({"X"}, {"file", "file2", ""})
LookupEnvs == MapsOver({"X"}, {"env", ""})

\* _getVariable is called for the token ${X} under the namespace NS.
LookupVariable(config, loaders, env) ==
  lookup' = [config |-> config, loaders |-> loaders, env |-> env,
             result |-> GetVariableFrom(config, loaders, env, "X", "NS")]

\* ------------------------------------ UtcpClient: post-processing results
VARIABLE
  pipeline    \* the tail of one callTool or callToolStreaming: the
              \* post-processors of the configuration, what the protocol
              \* returned or yields (raw), the chunks it has still to yield,
              \* and what the client has returned or yielded so far (out)

InitPipeline ==
  pipeline = [mode |-> "none", processors |-> <<>>, raw |-> <<>>,
              pending |-> <<>>, out |-> <<>>, done |-> TRUE]

\* config.post_processing: limit_strings with its limit, and a processor
\* registered by a plugin that appends a mark to the result.
Processors ==
  [tool_post_processor_type : {"limit_strings"}, limit : {1, 2}]
    \cup {[tool_post_processor_type |-> "mark", limit |-> 0]}

\* Results and chunks of a protocol.
RawResults == {"", "ab", "xyz"}

\* processor.postProcess(caller, tool, manualCallTemplate, result)
PostProcess(processor, result) ==
  IF processor.tool_post_processor_type = "limit_strings"
    THEN (IF Len(result) > processor.limit THEN SubSeq(result, 1, processor.limit)
          ELSE result)
    ELSE result \o "+"

\* A mutant of ApplyPostProcessors: the last configured processor runs first.
RECURSIVE ApplyPostProcessorsReversed(_, _)
ApplyPostProcessorsReversed(processors, result) ==
  IF processors = <<>> THEN result
  ELSE PostProcess(Head(processors), ApplyPostProcessorsReversed(Tail(processors), result))

\* The loop "for (const processor of this.postProcessors) result = ...".
RECURSIVE ApplyPostProcessors(_, _)
ApplyPostProcessors(processors, result) ==
  IF processors = <<>> THEN result
  ELSE ApplyPostProcessors(Tail(processors), PostProcess(Head(processors), result))

\* callTool: the protocol's callTool has resolved with raw; the result goes
\* through the processors and is returned.
PipeCallTool(processors, raw) ==
  /\ pipeline.done
  /\ pipeline' = [mode |-> "call", processors |-> processors, raw |-> <<raw>>,
                  pending |-> <<>>, out |-> <<ApplyPostProcessors(processors, raw)>>,
                  done |-> TRUE]

\* callToolStreaming: the protocol's generator is obtained.
PipeStreamStart(processors, chunks) ==
  /\ pipeline.done
  /\ pipeline' = [mode |-> "stream", processors |-> processors, raw |-> chunks,
                  pending |-> chunks, out |-> <<>>, done |-> FALSE]

\* callToolStreaming: the protocol yields its next chunk; it goes through
\* the processors and is yielded.
PipeStreamNext ==
  /\ ~pipeline.done /\ pipeline.pending # <<>>
  /\ pipeline' =
       [pipeline EXCEPT
          !.pending = Tail(pipeline.pending),
          !.out = Append(pipeline.out,
                         ApplyPostProcessors(pipeline.processors, Head(pipeline.pending)))]

\* callToolStreaming: the protocol's generator ends, and so does the client's.
PipeStreamEnd ==
  /\ ~pipeline.done /\ pipeline.pending = <<>>
  /\ pipeline' = [pipeline EXCEPT !.done = TRUE]

\* --------------------------------------------------- UtcpClient.close()
VARIABLE
  clientClose    \* one call of UtcpClient.close(): _registeredCommProtocols
                 \* (type -> instance), the close() calls it made, one record
                 \* per call, and how its own promise has settled

InitClientClose ==
  clientClose = [protocols |-> EmptyMap, closePromises |-> <<>>, outcome |-> "none"]

\* _registeredCommProtocols of a client: the MCP protocol under its type or
\* not, and two plugin types, each registered or not with one of two plugin
\* instances (one instance may serve both types).
ProtocolMaps ==
  {m \in MapsOver({"mcp", "a", "b"}, {"mcpProtocol", "pluginOne", "pluginTwo"}) :
     \A type \in DOMAIN m : (type = "mcp") <=> (m[type] = "mcpProtocol")}

\* The keys of a map in insertion order (here: the order mcp, a, b).
RECURSIVE InsertionOrder(_, _)
InsertionOrder(m, types) ==
  IF types = <<>> THEN <<>>
  ELSE (IF Head(types) \in DOMAIN m THEN <<Head(types)>> ELSE <<>>)
         \o InsertionOrder(m, Tail(types))

\* How the close() of an instance may settle: McpCommunicationProtocol.close
\* catches the failure of every session close; a plugin's close may reject.
CloseOutcomes(instance) ==
  IF instance = "mcpProtocol" THEN {"resolved"} ELSE {"resolved", "rejected"}

\* close() up to its await: protocol.close() is called for every value of
\* the map and the promises are handed to Promise.all.
ClientCloseStart(protocols) ==
  /\ clientClose.outcome # "pending"
  /\ \A i \in 1..Len(clientClose.closePromises) :
       clientClose.closePromises[i].state # "pending"
  /\ LET types == InsertionOrder(protocols, <<"mcp", "a", "b">>)
     IN clientClose' =
          [protocols |-> protocols,
           closePromises |-> [i \in 1..Len(types) |->
                                [instance |-> protocols[types[i]], state |-> "pending"]],
           outcome |-> "pending"]

\* The close() of one protocol settles.
ProtocolCloseSettled(i, outcome) ==
  /\ i \in 1..Len(clientClose.closePromises)
  /\ clientClose.closePromises[i].state = "pending"
  /\ outcome \in CloseOutcomes(clientClose.closePromises[i].instance)
  /\ clientClose' = [clientClose EXCEPT !.closePromises[i].state = outcome]

\* Promise.all(promises): rejected as soon as one promise is rejected,
\* fulfilled once all are fulfilled.
PromiseAllSettles(promises) ==
  IF \E i \in 1..Len(promises) : promises[i].state = "rejected" THEN "rejected"
  ELSE IF \A i \in 1..Len(promises) : promises[i].state = "resolved" THEN "resolved"
  ELSE "pending"

\* close(): "await Promise.all(closePromises)" is over and close() returns
\* or throws.
ClientCloseSettled ==
  /\ clientClose.outcome = "pending"
  /\ PromiseAllSettles(clientClose.closePromises) # "pending"
  /\ clientClose' =
       [clientClose EXCEPT !.outcome = PromiseAllSettles(clientClose.closePromises)]

\* ------------------------------- callToolStreaming of the four protocols
VARIABLE
  protoStream    \* one callToolStreaming of a protocol: its arguments, how
                 \* the callTool inside it settled, the chunks yielded so
                 \* far and where the generator stands

InitProtoStream ==
  protoStream = [protocol |-> "none", toolName |-> "", toolArgs |-> "",
                 called |-> [ok |-> TRUE, value |-> ""], chunks |-> <<>>,
                 state |-> "ended"]

\* The protocols whose callToolStreaming awaits callTool and yields.
OneChunkProtocols == {"http", "mcp", "text", "cli"}

\* How a protocol's callTool may settle: a result or a thrown error.
CallToolOutcomes ==
  [ok : {TRUE}, value : RawResults]
    \cup [ok : {FALSE}, value : {"Request failed", "failed with exit code 1"}]

\* A mutant of YieldedFor: an error is yielded as a chunk.
YieldedForAnyOutcome(called) == <<called.value>>

\* "const result = await this.callTool(...); yield result;": what the
\* generator yields when callTool has settled as called.
YieldedFor(called) == IF called.ok THEN <<called.value>> ELSE <<>>

\* The consumer asks for the first chunk: callTool is called.
ProtoStreamStart(protocol, toolName, toolArgs) ==
  /\ protoStream.state \in {"ended", "failed"}
  /\ protoStream' = [protocol |-> protocol, toolName |-> toolName,
                     toolArgs |-> toolArgs, called |-> [ok |-> TRUE, value |-> ""],
                     chunks |-> <<>>, state |-> "calling"]

\* callTool settles: its result is yielded, or its error ends the generator.
ProtoStreamCalled(called) ==
  /\ protoStream.state = "calling"
  /\ protoStream' =
       [protoStream EXCEPT !.called = called,
                           !.chunks = YieldedFor(called),
                           !.state = IF called.ok THEN "yielded" ELSE "failed"]

\* The consumer asks for the next chunk: the generator returns.
ProtoStreamEnd ==
  /\ protoStream.state = "yielded"
  /\ protoStream' = [protoStream EXCEPT !.state = "ended"]

\* -------------------------------------------------------- PluginRegistry
VARIABLE
  registry    \* PluginRegistry: _communicationProtocols, _callTemplateSchemas
              \* and, as history, the last register call with its arguments,
              \* whether the type had an entry before it, and what it returned

InitRegistry ==
  registry = [protocols |-> EmptyMap, schemas |-> EmptyMap,
              last |-> [op |-> "none", type |-> "", entry |-> "", override |-> FALSE,
                        had |-> FALSE, returned |-> FALSE]]

RegistryTypes == {"http", "cli"}
\* Protocol instances passed to registerCommProtocol.
ProtocolInstances == {"p1", "p2"}
\* Schemas passed to registerCallTemplateSchema: two objects with a literal
\* call_template_type, an object without one, and a schema that is no object.
TemplateSchemas == {"object1", "object2", "objectNoLiteral", "union"}

\* schema instanceof ZodObject && schema.shape.call_template_type instanceof ZodLiteral
HasLiteralType(schema) == schema \in {"object1", "object2"}

\* A mutant of MayInstall: an existing entry never stops a registration.
MayInstallAlways(map, type, override) == TRUE

\* The negation of the test "map.has(type) && !override".
MayInstall(map, type, override) == ~(type \in DOMAIN map /\ ~override)

\* registerCommProtocol(type, protocolInstance, override)
RegisterCommProtocol(type, instance, override) ==
  LET ok == MayInstall(registry.protocols, type, override)
  IN registry' =
       [registry EXCEPT
          !.protocols = IF ok THEN MapSet(registry.protocols, type, instance)
                        ELSE registry.protocols,
          !.last = [op |-> "protocol", type |-> type, entry |-> instance,
                    override |-> override, had |-> type \in DOMAIN registry.protocols,
                    returned |-> ok]]

\* registerCallTemplateSchema(type, schema, override)
RegisterCallTemplateSchema(type, schema, override) ==
  LET ok == HasLiteralType(schema) /\ MayInstall(registry.schemas, type, override)
  IN registry' =
       [registry EXCEPT
          !.schemas = IF ok THEN MapSet(registry.schemas, type, schema)
                      ELSE registry.schemas,
          !.last = [op |-> "schema", type |-> type, entry |-> schema,
                    override |-> override, had |-> type \in DOMAIN registry.schemas,
                    returned |-> ok]]

\* ------------------------------------------------ CliCommunicationProtocol
\* The multi-command workflow of the CLI protocol on the POSIX build
\* (process.platform other than win32): the script is run by /bin/bash -c.
VARIABLE
  cli    \* one callTool of the CLI protocol: the workflow, the script built
         \* from it, the state of the spawned shell and, as history, what
         \* every executed step saw, left behind and printed

IsSpace(ch) == ch \in {" ", "\n", "\t"}

RECURSIVE TrimStart(_)
TrimStart(s) ==
  IF Len(s) > 0 /\ IsSpace(SubSeq(s, 1, 1)) THEN TrimStart(SubSeq(s, 2, Len(s))) ELSE s

RECURSIVE TrimEnd(_)
TrimEnd(s) ==
  IF Len(s) > 0 /\ IsSpace(SubSeq(s, Len(s), Len(s)))
    THEN TrimEnd(SubSeq(s, 1, Len(s) - 1)) ELSE s

\* s.trim()
Trim(s) == TrimEnd(TrimStart(s))

\* What bash keeps of the output of a command substitution $( ... ): the
\* trailing newlines are removed, nothing else.
RECURSIVE StripTrailingNewlines(_)
StripTrailingNewlines(s) ==
  IF Len(s) > 0 /\ SubSeq(s, Len(s), Len(s)) = "\n"
    THEN StripTrailingNewlines(SubSeq(s, 1, Len(s) - 1)) ELSE s

\* Command strings of the steps of a workflow.
CliCommands ==
  {"cd /tmp", "cd /tmp && pwd", "cd /missing", "cd /missing && pwd", "pwd",
   "export FOO=bar", "echo $FOO", "echo ' a '", "echo 7", "false",
   "echo $CMD_0_OUTPUT", "echo $CMD_1_OUTPUT"}

\* CommandStepSchema: append_to_final_output is an optional boolean.
CommandSteps ==
  [command : CliCommands, append_to_final_output : {"true", "false", "undefined"}]

DigitValue == [d \in {"0", "1", "2", "3"} |->
                 CASE d = "0" -> 0 [] d = "1" -> 1 [] d = "2" -> 2 [] d = "3" -> 3]

\* The match of /\$CMD_(\d+)_OUTPUT/ at position p of the command, for
\* indices of one digit.
CmdRefAt(command, p) ==
  /\ p + 12 <= Len(command)
  /\ SubSeq(command, p, p + 4) = "$CMD_"
  /\ SubSeq(command, p + 5, p + 5) \in DOMAIN DigitValue
  /\ SubSeq(command, p + 6, p + 12) = "_OUTPUT"

\* finalCommand.replace(/\$CMD_(\d+)_OUTPUT/g, ...) in step i: a reference to
\* an earlier step is wrapped in double quotes, any other is left as it is.
RECURSIVE ReplaceCmdRefs(_, _, _)
ReplaceCmdRefs(command, i, p) ==
  IF p > Len(command) THEN ""
  ELSE IF CmdRefAt(command, p)
    THEN LET match == SubSeq(command, p, p + 12)
             index == DigitValue[SubSeq(command, p + 5, p + 5)]
         IN (IF index < i THEN "\"" \o match \o "\"" ELSE match)
              \o ReplaceCmdRefs(command, i, p + 13)
    ELSE SubSeq(command, p, p) \o ReplaceCmdRefs(command, i, p + 1)

\* step.append_to_final_output ?? isLastCommand
ShouldAppend(commands, k) ==
  IF commands[k].append_to_final_output = "undefined" THEN k = Len(commands)
  ELSE commands[k].append_to_final_output = "true"

RECURSIVE OutputLines(_, _)
OutputLines(commands, k) ==
  IF k > Len(commands) THEN <<>>
  ELSE (IF ShouldAppend(commands, k) THEN <<k - 1>> ELSE <<>>) \o OutputLines(commands, k + 1)

\* _buildCombinedShellScript: one line (or two, for a cd step) per step, then
\* the line that prints the variables of the contributing steps. A step is
\* the record of its index, its final command and whether the line captures
\* the command in CMD_<i>_OUTPUT=$( ... 2>&1 ).
BuildCombinedShellScript(commands) ==
  [steps |-> [k \in 1..Len(commands) |->
                LET finalCommand == ReplaceCmdRefs(commands[k].command, k - 1, 1)
                IN [index |-> k - 1, command |-> finalCommand,
                    captured |-> ~StartsWith(Trim(finalCommand), "cd ")]],
   outputs |-> OutputLines(commands, 1)]

\* The simple commands of the and-or list "a && b && ...".
RECURSIVE AndList(_)
AndList(command) ==
  LET cuts == {p \in 1..Len(command) : p + 3 <= Len(command) /\ SubSeq(command, p, p + 3) = " && "}
  IN IF cuts = {} THEN <<command>>
     ELSE LET p == CHOOSE x \in cuts : \A y \in cuts : x <= y
          IN <<SubSeq(command, 1, p - 1)>> \o AndList(SubSeq(command, p + 4, Len(command)))

\* Directories that exist.
Directories == {"/home", "/tmp"}

\* The expansion of $CMD_<d>_OUTPUT in the shell: an unset variable expands
\* to the empty string.
VarValue(sh, d) == IF d \in DOMAIN sh.vars THEN sh.vars[d] ELSE ""

\* One simple command run by bash in the shell state sh (working directory,
\* the variable FOO, the CMD_<i>_OUTPUT variables): the state it leaves, what
\* it prints and its exit status. A quoted "$CMD_<d>_OUTPUT" expands to the
\* value as it is; an unquoted one is split into words (the values here hold
\* one word, so that the word is what is left).
RunSimple(c, sh) ==
  CASE c = "pwd" -> [sh |-> sh, out |-> sh.cwd \o "\n", status |-> 0]
    [] StartsWith(c, "cd ") ->
         LET dir == SubSeq(c, 4, Len(c))
         IN IF dir \in Directories
              THEN [sh |-> [sh EXCEPT !.cwd = dir], out |-> "", status |-> 0]
              ELSE [sh |-> sh, out |-> "", status |-> 1]
    [] c = "export FOO=bar" -> [sh |-> [sh EXCEPT !.foo = "bar"], out |-> "", status |-> 0]
    [] c = "echo $FOO" -> [sh |-> sh, out |-> sh.foo \o "\n", status |-> 0]
    [] c = "echo ' a '" -> [sh |-> sh, out |-> " a \n", status |-> 0]
    [] c = "echo 7" -> [sh |-> sh, out |-> "7\n", status |-> 0]
    [] c = "false" -> [sh |-> sh, out |-> "", status |-> 1]
    [] StartsWith(c, "echo \"$CMD_") ->
         [sh |-> sh, out |-> VarValue(sh, DigitValue[SubSeq(c, 12, 12)]) \o "\n", status |-> 0]
    [] StartsWith(c, "echo $CMD_") ->
         [sh |-> sh, out |-> Trim(VarValue(sh, DigitValue[SubSeq(c, 11, 11)])) \o "\n",
          status |-> 0]

\* An and-or list run by bash: the commands run in order up to the first
\* that fails. Under set -e the shell exits on a failure only if the command
\* that failed is the last one of the list.
RECURSIVE RunList(_, _, _, _)
RunList(cs, k, sh, out) ==
  LET r == RunSimple(cs[k], sh)
  IN IF r.status # 0
       THEN [sh |-> r.sh, out |-> out \o r.out, status |-> r.status, errexit |-> k = Len(cs)]
     ELSE IF k = Len(cs)
       THEN [sh |-> r.sh, out |-> out \o r.out, status |-> 0, errexit |-> FALSE]
     ELSE RunList(cs, k + 1, r.sh, out \o r.out)

\* The references $CMD_<d>_OUTPUT of a final command with the value each
\* expands to in the shell state sh.
CmdRefValues(command, sh) ==
  LET ps == {p \in 1..Len(command) : CmdRefAt(command, p)}
      IndexAt(p) == DigitValue[SubSeq(command, p + 5, p + 5)]
      Quoted(p) == p > 1 /\ SubSeq(command, p - 1, p - 1) = "\""
  IN [d \in {IndexAt(p) : p \in ps} |->
        LET p == CHOOSE x \in ps : IndexAt(x) = d
        IN [replaced |-> Quoted(p),
            value |-> IF Quoted(p) THEN VarValue(sh, d) ELSE Trim(VarValue(sh, d))]]

NoCliResult == [type |-> "none", value |-> ""]

InitCli ==
  cli = [pc |-> "idle", commands |-> <<>>, script |-> [steps |-> <<>>, outputs |-> <<>>],
         sh |-> [cwd |-> "/home", foo |-> "", vars |-> EmptyMap],
         next |-> 1, stdout |-> "", exitCode |-> 0, killed |-> FALSE,
         ran |-> EmptyMap, result |-> NoCliResult]

\* callTool up to the spawn of the shell in _executeShellScript: the script
\* is built and /bin/bash -c starts in the working directory of the process.
CliCallTool(commands) ==
  /\ cli.pc = "idle"
  /\ cli' = [pc |-> "running", commands |-> commands,
             script |-> BuildCombinedShellScript(commands),
             sh |-> [cwd |-> "/home", foo |-> "", vars |-> EmptyMap],
             next |-> 1, stdout |-> "", exitCode |-> 0, killed |-> FALSE,
             ran |-> EmptyMap, result |-> NoCliResult]

\* The shell runs the line(s) of the next step. A captured step runs in the
\* subshell of the command substitution: its output, less the trailing
\* newlines, becomes CMD_<i>_OUTPUT, what it did to the shell state is lost,
\* and its status is the status of the assignment. A cd step runs in the
\* shell itself: it prints to the standard output of the script, and
\* CMD_<i>_OUTPUT="" follows.
ShellRunStep ==
  /\ cli.pc = "running"
  /\ cli.next <= Len(cli.script.steps)
  /\ LET line == cli.script.steps[cli.next]
         r == RunList(AndList(Trim(line.command)), 1, cli.sh, "")
         exits == r.status # 0 /\ (line.captured \/ r.errexit)
         after == IF line.captured THEN cli.sh ELSE r.sh
         value == IF line.captured THEN StripTrailingNewlines(r.out) ELSE ""
     IN cli' = [cli EXCEPT
                  !.sh = IF exits /\ ~line.captured THEN after
                         ELSE [after EXCEPT !.vars = MapSet(@, line.index, value)],
                  !.stdout = IF line.captured THEN @ ELSE @ \o r.out,
                  !.ran = MapSet(@, line.index,
                                 [seen |-> [cwd |-> cli.sh.cwd, foo |-> cli.sh.foo],
                                  left |-> [cwd |-> r.sh.cwd, foo |-> r.sh.foo],
                                  out |-> r.out, status |-> r.status,
                                  refs |-> CmdRefValues(line.command, cli.sh)]),
                  !.next = @ + 1,
                  !.pc = IF exits THEN "exited" ELSE "running",
                  !.exitCode = IF exits THEN r.status ELSE 0]

\* Separator-joined values of the variables named on the last line.
RECURSIVE JoinOutputs(_, _, _)
JoinOutputs(sh, outputs, k) ==
  IF k > Len(outputs) THEN ""
  ELSE VarValue(sh, outputs[k])
         \o (IF k < Len(outputs) THEN "\n" ELSE "") \o JoinOutputs(sh, outputs, k + 1)

\* The last line of the script: echo -n "$CMD_<i>_OUTPUT" of every
\* contributing step, joined by && printf '\n' &&; the shell then exits.
ShellPrintOutputs ==
  /\ cli.pc = "running"
  /\ cli.next > Len(cli.script.steps)
  /\ cli' = [cli EXCEPT !.stdout = @ \o JoinOutputs(cli.sh, cli.script.outputs, 1),
                        !.pc = "exited", !.exitCode = 0]

\* The timer of _executeShellScript fires while the shell runs: the child is
\* killed, the race rejects, callTool rethrows.
CliTimeout ==
  /\ cli.pc = "running"
  /\ cli' = [cli EXCEPT !.pc = "threw", !.killed = TRUE,
                        !.result = [type |-> "error", value |-> "timed out"]]

Digits == {"0", "1", "2", "3", "4", "5", "6", "7", "8", "9"}

\* JSON.parse(trimmedStdout), with the fallback to the string itself: of the
\* outputs here the decimal numbers are JSON documents.
JsonParseOrRaw(s) ==
  IF Len(s) > 0 /\ \A p \in 1..Len(s) : SubSeq(s, p, p) \in Digits
    THEN [type |-> "number", value |-> s]
    ELSE [type |-> "string", value |-> s]

\* callTool after the close of the child: a non-zero exit code throws, else
\* the trimmed standard output is returned, parsed as JSON if it can be.
CliSettled ==
  /\ cli.pc = "exited"
  /\ cli' = [cli EXCEPT
               !.pc = IF cli.exitCode # 0 THEN "threw" ELSE "returned",
               !.result = IF cli.exitCode # 0
                            THEN [type |-> "error", value |-> "failed with exit code"]
                            ELSE JsonParseOrRaw(Trim(cli.stdout))]

\* ----------------------------------------------- HttpCommunicationProtocol
VARIABLE
  httpDiscovery   \* one registerManual of the HTTP protocol: the template,
                  \* the requests sent so far and the result returned

\* URLs of HTTP call templates.
HttpUrls ==
  {"https://api.example.com/utcp", "https://localhost/utcp",
   "http://api.example.com/utcp", "http://localhost:8080/utcp",
   "http://127.0.0.1/utcp", "http://localhost.evil.com/utcp",
   "http://127.0.0.1.evil.com/utcp", "http://localhost@evil.com/utcp",
   "https://api.example.com/openapi.yaml", "http://localhost/utcp",
   "http://192.168.0.1/utcp"}

HttpMethods == {"GET", "POST"}

NoHttpResult == [settled |-> FALSE, success |-> FALSE, tools |-> 0, errors |-> <<>>]

InitHttp ==
  httpDiscovery = [pc |-> "idle", url |-> "", http_method |-> "", requests |-> {},
                   result |-> NoHttpResult]

\* The negation of the test that throws the security error.
PassesSecurityGate(url) ==
  \/ StartsWith(url, "https://")
  \/ StartsWith(url, "http://localhost")
  \/ StartsWith(url, "http://127.0.0.1")

SecurityError(url) ==
  "Security error: URL must use HTTPS or start with 'http://localhost' or 'http://127.0.0.1'. Got: "
    \o url

\* What the request and the reading of its response come to: a UTCP manual
\* with some tools, an OpenAPI specification converted to a manual, a
\* document that is neither, or an error of the request.
HttpResponses ==
  [kind : {"manual", "openapi"}, tools : 0..MaxTools]
    \cup {[kind |-> "neither", tools |-> 0], [kind |-> "axiosError", tools |-> 0]}

\* registerManual up to the request: the URL is tested, and either the
\* security error is thrown and caught, or the request is sent.
HttpRegisterStart(url, method) ==
  /\ httpDiscovery.pc = "idle"
  /\ httpDiscovery' =
       IF PassesSecurityGate(url)
         THEN [httpDiscovery EXCEPT !.pc = "requesting", !.url = url,
                                    !.http_method = method,
                                    !.requests = @ \cup {[method |-> method, url |-> url]}]
         ELSE [httpDiscovery EXCEPT !.pc = "settled", !.url = url, !.http_method = method,
                                    !.result = [settled |-> TRUE, success |-> FALSE,
                                                tools |-> 0,
                                                errors |-> <<SecurityError(url)>>]]

\* registerManual from the response on.
HttpRegisterSettled(response) ==
  /\ httpDiscovery.pc = "requesting"
  /\ httpDiscovery' =
       [httpDiscovery EXCEPT
          !.pc = "settled",
          !.result =
            CASE response.kind \in {"manual", "openapi"} ->
                   [settled |-> TRUE, success |-> TRUE, tools |-> response.tools,
                    errors |-> <<>>]
              [] response.kind = "neither" ->
                   [settled |-> TRUE, success |-> FALSE, tools |-> 0,
                    errors |-> <<"Error: Response is neither a valid UTCP Manual nor an OpenAPI Specification.">>]
              [] response.kind = "axiosError" ->
                   [settled |-> TRUE, success |-> FALSE, tools |-> 0,
                    errors |-> <<"Network Error">>]]

\* -------------------------------------------------------- TagSearchStrategy
VARIABLE
  search    \* one searchTools: its arguments, the tools of the repository
            \* at the time, and the names of the tools returned

\* Default weights of the constructor.
DescriptionWeight == 1
TagWeight == 3

\* s.match(/\w+/g) as a set: the maximal runs of word characters.
WordsOf(s) ==
  {SubSeq(s, i, i + WordRunLen(s, i) - 1) :
     i \in {j \in 1..Len(s) : /\ SubSeq(s, j, j) \in WordChars
                              /\ (j = 1 \/ SubSeq(s, j - 1, j - 1) \notin WordChars)}}

\* Tools a repository may hold, with their tags and description.
SearchableTools ==
  {[name |-> "m.add", tags |-> <<"math">>, description |-> "adds two numbers"],
   [name |-> "m.sum", tags |-> <<"Math", "text">>, description |-> "math add"],
   [name |-> "s.join", tags |-> <<"concatenate">>, description |-> "joins two strings"],
   [name |-> "s.noop", tags |-> <<>>, description |-> "does nothing with numbers"]}

SearchQueries == {"math add", "MATH numbers", "cat", "two", ""}
SearchLimits == {0, 1, 2}
\* anyOfTagsRequired: left out, empty, or some tags.
RequiredTags == {<<>>, <<"MATH">>, <<"Text", "concatenate">>}

\* Lists without repetition of at most n tools.
RECURSIVE ToolLists(_)
ToolLists(n) ==
  IF n = 0 THEN {<<>>}
  ELSE LET shorter == ToolLists(n - 1)
           longest == {q \in shorter : Len(q) = n - 1}
       IN shorter \cup UNION {{Append(l, t) : t \in SearchableTools \ Range(l)} :
                                l \in longest}

\* The prefilter: tool.tags.some(tag => requiredTagsLower.has(tag.toLowerCase()))
PassesTagFilter(tool, anyOfTagsRequired) ==
  \/ Len(anyOfTagsRequired) = 0
  \/ \E t \in 1..Len(tool.tags), r \in 1..Len(anyOfTagsRequired) :
       ToLower(tool.tags[t]) = ToLower(anyOfTagsRequired[r])

\* The score of the tags from tag k on, doubled (tagWeight * 0.5 is a half).
RECURSIVE TagScore(_, _, _)
TagScore(tags, queryLower, k) ==
  IF k > Len(tags) THEN 0
  ELSE LET tagLower == ToLower(tags[k])
       IN (IF Includes(queryLower, tagLower) \/ Includes(tagLower, queryLower)
             THEN 2 * TagWeight ELSE 0)
          + TagWeight * Cardinality(WordsOf(tagLower) \cap WordsOf(queryLower))
          + TagScore(tags, queryLower, k + 1)

\* The score of a tool for a query, doubled.
Score(tool, query) ==
  LET queryLower == ToLower(query)
      queryWords == WordsOf(queryLower)
  IN TagScore(tool.tags, queryLower, 1)
     + 2 * DescriptionWeight
         * Cardinality({w \in WordsOf(ToLower(tool.description)) :
                          w \in queryWords /\ Len(w) > 2})

\* A mutant of KeepsScore: no score is dropped.
KeepsAnyScore(score) == TRUE

\* .filter(item => item.score > 0)
KeepsScore(score) == score > 0

\* One insertion of the stable sort by (a, b) => b.score - a.score: the item
\* goes behind every item whose score is not lower.
RECURSIVE InsertByScore(_, _)
InsertByScore(sorted, item) ==
  IF sorted = <<>> THEN <<item>>
  ELSE IF sorted[1].score >= item.score
    THEN <<sorted[1]>> \o InsertByScore(Tail(sorted), item)
    ELSE <<item>> \o sorted

RECURSIVE SortByScore(_, _)
SortByScore(items, k) ==
  IF k = 0 THEN <<>> ELSE InsertByScore(SortByScore(items, k - 1), items[k])

\* array.slice(0, limit)
Slice(seq, limit) == SubSeq(seq, 1, IF limit < Len(seq) THEN limit ELSE Len(seq))

InitSearch ==
  search = [done |-> FALSE, tools |-> <<>>, query |-> "", limit |-> 0,
            anyOfTagsRequired |-> <<>>, result |-> <<>>]

\* searchTools(repository, query, limit, anyOfTagsRequired)
SearchTools(tools, query, limit, anyOfTagsRequired) ==
  /\ ~search.done
  /\ LET filtered == SelectSeq(tools, LAMBDA tool : PassesTagFilter(tool, anyOfTagsRequired))
         toolScores == [k \in 1..Len(filtered) |->
                          [tool |-> filtered[k], score |-> Score(filtered[k], query)]]
         sorted == SelectSeq(SortByScore(toolScores, Len(toolScores)),
                             LAMBDA item : KeepsScore(item.score))
         sortedTools == [k \in 1..Len(sorted) |-> sorted[k].tool.name]
     IN search' = [done |-> TRUE, tools |-> tools, query |-> query, limit |-> limit,
                   anyOfTagsRequired |-> anyOfTagsRequired,
                   result |-> IF limit > 0 THEN Slice(sortedTools, limit) ELSE sortedTools]

\* --------------------------------------------------------------- AsyncMutex
VARIABLE
  mutex    \* the write mutex of the repository (locked, queue of waiting
           \* writers) with the writers that use it: where each one is, the
           \* write it makes, and, as history, the number of writes
           \* requested and the writes applied in order

Writers == 1..NumWriters

WriteOps == {"saveManual", "removeManual", "removeTool"}

IdleWriter == [pc |-> "idle", op |-> "", throws |-> FALSE, ticket |-> 0]

InitMutex ==
  mutex = [locked |-> FALSE, queue |-> <<>>, writers |-> [w \in Writers |-> IdleWriter],
           requested |-> 0, applied |-> <<>>]

\* A mutant of ReleasedAfter: a section that throws keeps the mutex.
ReleasedAfterSuccessOnly(throws) == ~throws

\* try { ... } finally { release(); }: release() runs however the section ends.
ReleasedAfter(throws) == TRUE

\* A writer calls saveManual, removeManual or removeTool, which runs up to
\* the await of acquire(): a free mutex is taken at once, else the resolver
\* of the writer is pushed on the queue.
WriteRequested(w, op, throws) ==
  /\ mutex.writers[w].pc = "idle"
  /\ mutex.requested < MaxWrites
  /\ mutex' =
       [mutex EXCEPT
          !.requested = @ + 1,
          !.locked = TRUE,
          !.queue = IF mutex.locked THEN Append(@, w) ELSE @,
          !.writers[w] = [pc |-> IF mutex.locked THEN "queued" ELSE "acquired",
                          op |-> op, throws |-> throws, ticket |-> mutex.requested + 1]]

\* The writer resumes behind the await with the mutex: the write section
\* runs without suspension, and release() in the finally clause hands the
\* mutex to the head of the queue or frees it.
WriteSection(w) ==
  /\ mutex.writers[w].pc = "acquired"
  /\ LET me == mutex.writers[w]
         released == ReleasedAfter(me.throws)
         handOver == released /\ mutex.queue # <<>>
     IN mutex' =
          [mutex EXCEPT
             !.applied = Append(@, [ticket |-> me.ticket, op |-> me.op, threw |-> me.throws]),
             !.locked = IF released THEN handOver ELSE @,
             !.queue = IF handOver THEN Tail(@) ELSE @,
             !.writers = [x \in Writers |->
                            IF x = w THEN IdleWriter
                            ELSE IF handOver /\ x = Head(mutex.queue)
                              THEN [mutex.writers[x] EXCEPT !.pc = "acquired"]
                            ELSE mutex.writers[x]]]

\* ------------------------------- _getVariable: namespaced and bare keys
VARIABLE
  nsLookup    \* one _getVariable for the token X under the namespace NS,
              \* over sources that may define NS__X, X or both: the
              \* sources and what the lookup returned

NoNsLookup ==
  [done |-> FALSE, config |-> EmptyMap, loaders |-> <<>>, env |-> EmptyMap,
   result |-> [found |-> FALSE, value |-> ""]]

InitNsLookup == nsLookup = NoNsLookup

\* The sources of a kind (config, file, env): each defines any of the keys
\* NS__X and X, the value naming the kind of source and the key.
SourcesOf(kind) ==
  {[k \in present |-> kind \o "." \o k] : present \in SUBSET {"NS__X", "X"}}

\* _getVariable is called for the token ${X} under the namespace NS.
NsLookupVariable(config, loaders, env) ==
  /\ ~nsLookup.done
  /\ nsLookup' = [done |-> TRUE, config |-> config, loaders |-> loaders, env |-> env,
                  result |-> GetVariableFrom(config, loaders, env, "X", "NS")]

\* ------------------------------------------- fully-qualified variable keys
VARIABLE
  builtKeys   \* the keys built so far: for a namespace and a variable name,
              \* the key _getVariable looks up and the key
              \* findRequiredVariables reports

InitBuiltKeys == builtKeys = {}

\* Namespaces that pass /^[a-zA-Z0-9_]+$/ and names of tokens.
KeyNamespaces == {"a", "a_b", "b", "a_"}
KeyNames == {"b", "c", "b__c", "_c"}

\* The namespace passes /^[a-zA-Z0-9_]+$/.
ValidNamespace(namespace) ==
  Len(namespace) > 0 /\ \A i \in 1..Len(namespace) : SubSeq(namespace, i, i) \in WordChars

\* findRequiredVariables: the prefixed name of a token under a namespace.
PrefixedVarName(varNameInTemplate, namespace) ==
  IF namespace # "" THEN DoubleUnderscoresFrom(namespace, 1) \o "__" \o varNameInTemplate
  ELSE varNameInTemplate

\* substitute and findRequiredVariables meet the token ${name} under the
\* namespace.
BuildKey(namespace, name) ==
  /\ Cardinality(builtKeys) < MaxKeys
  /\ ValidNamespace(namespace)
  /\ builtKeys' = builtKeys \cup
       {[namespace |-> namespace, name |-> name,
         looked |-> EffectiveVarName(name, namespace),
         required |-> PrefixedVarName(name, namespace)]}

\* ---------------------------------- substitution of a substituted template
VARIABLE
  resub    \* a call template whose url holds tokens, the variables of the
           \* configuration, the url after the substitution of
           \* registerManual, and the outcome of the substitution callTool
           \* makes of that stored url

NoSubstitution == [ok |-> FALSE, value |-> "", missing |-> ""]

InitResub ==
  resub = [done |-> FALSE, config |-> EmptyMap, url |-> "",
           first |-> NoSubstitution, second |-> NoSubstitution]

\* Urls of call templates, and config.variables: a value is any string, a
\* password or a price with a dollar sign included.
ResubUrls == {"http://h", "http://h/${KEY}", "http://h/$KEY/$OTHER", "$OTHER"}
ResubConfigs == MapsOver({"KEY", "OTHER"}, {"secret", "pa$KEY", "pa$word", "${OTHER}", "$5"})

\* registerManual substitutes the template under the name of the manual and
\* stores it, with the tools that carry it; callTool substitutes the stored
\* template of the tool under the same name again.
SubstituteTwice(config, url) ==
  /\ ~resub.done
  /\ LET sources == [config |-> config, loaders |-> <<>>, env |-> EmptyMap]
         first == SubstituteIn(sources, url, 1, "m")
     IN resub' = [done |-> TRUE, config |-> config, url |-> url, first |-> first,
                  second |-> IF first.ok THEN SubstituteIn(sources, first.value, 1, "m")
                             ELSE NoSubstitution]

\* ------------------------------ PluginRegistry.getCallTemplateUnionSchema
VARIABLE
  unionSchema    \* the last call of getCallTemplateUnionSchema: the schemas
                 \* registered when it was made and the validator it returned

\* CallTemplateBaseSchema: any string as call_template_type, other fields
\* passed through.
BaseSchema == [kind |-> "base", options |-> EmptyMap]

InitUnionSchema ==
  unionSchema = [called |-> FALSE, schemas |-> EmptyMap, returned |-> BaseSchema]

\* A mutant of UnionSchemaOf: a single registered schema is not returned, the
\* base schema is.
UnionSchemaBaseUpToOne(schemas) ==
  IF Cardinality(DOMAIN schemas) <= 1 THEN BaseSchema
  ELSE [kind |-> "discriminatedUnion", options |-> schemas]

\* The validator built from the values of _callTemplateSchemas: the base
\* schema for none, the registered schema itself for one, and
\* z.discriminatedUnion('call_template_type', all of them) otherwise. The
\* options are kept under the type they were registered for.
UnionSchemaOf(schemas) ==
  IF Cardinality(DOMAIN schemas) = 0 THEN BaseSchema
  ELSE IF Cardinality(DOMAIN schemas) = 1
    THEN [kind |-> "object", options |-> schemas]
  ELSE [kind |-> "discriminatedUnion", options |-> schemas]

\* getCallTemplateUnionSchema()
GetCallTemplateUnionSchema ==
  /\ unionSchema' = [called |-> TRUE, schemas |-> registry.schemas,
                     returned |-> UnionSchemaOf(registry.schemas)]
  /\ UNCHANGED registry

\* ------------------------------------------- OAuth2 client-credentials cache
\* _handleOAuth2 of the HTTP and of the MCP protocol, for one client id.
\* Time is counted in seconds.
VARIABLE
  oauth    \* _oauthTokens for the client id, the clock, the token requests
           \* in flight and the number sent so far, and the current call of
           \* _handleOAuth2 with what it returned

MaxOAuthCalls == 2
MaxHours == 2

InitOAuth ==
  oauth = [cache |-> [has |-> FALSE, accessToken |-> "", expiresAt |-> 0],
           now |-> 0, inflight |-> {}, requests |-> 0,
           call |-> [n |-> 0, state |-> "idle", token |-> "", fetched |-> FALSE,
                     failures |-> 0]]

\* The two ways the credentials are sent, tried at once.
OAuthMethods == {"body", "basic"}
\* access_token of a response; "" is a response without one, or an error.
AccessTokens == {"", "t1", "t2"}
\* expires_in of a response; 0 is a response without one.
ExpiresIn == {0, 7200}

\* cachedToken && cachedToken.expiresAt > Date.now()
CacheFresh == oauth.cache.has /\ oauth.cache.expiresAt > oauth.now

\* _handleOAuth2 up to its await: a fresh cache entry is returned, otherwise
\* both requests are sent and Promise.any waits for them.
HandleOAuth2 ==
  /\ oauth.call.state # "pending"
  /\ oauth.call.n < MaxOAuthCalls
  /\ IF CacheFresh
       THEN oauth' = [oauth EXCEPT
                        !.call = [n |-> oauth.call.n + 1, state |-> "returned",
                                  token |-> oauth.cache.accessToken,
                                  fetched |-> FALSE, failures |-> 0]]
     ELSE oauth' = [oauth EXCEPT
                      !.call = [n |-> oauth.call.n + 1, state |-> "pending",
                                token |-> "", fetched |-> TRUE, failures |-> 0],
                      !.inflight = oauth.inflight \cup
                                     {[method |-> m, call |-> oauth.call.n + 1] :
                                        m \in OAuthMethods},
                      !.requests = oauth.requests + 2]

\* The response to one token request arrives. With an access token the
\* strategy writes the cache entry and fulfils its promise; Promise.any
\* settles the call with the first fulfilment and ignores later ones.
\* Without one the strategy rejects, and the call throws once both have.
TokenResponse(req, access_token, expires_in) ==
  /\ req \in oauth.inflight
  /\ LET waiting == oauth.call.state = "pending" /\ req.call = oauth.call.n
         expiresAt == oauth.now + (IF expires_in = 0 THEN 3600 ELSE expires_in)
     IN oauth' =
          [oauth EXCEPT
             !.inflight = oauth.inflight \ {req},
             !.cache = IF access_token # ""
                         THEN [has |-> TRUE, accessToken |-> access_token,
                               expiresAt |-> expiresAt]
                       ELSE oauth.cache,
             !.call = IF ~waiting THEN oauth.call
                      ELSE IF access_token # ""
                        THEN [oauth.call EXCEPT !.state = "returned",
                                                !.token = access_token]
                      ELSE IF oauth.call.failures = 1
                        THEN [oauth.call EXCEPT !.state = "failed", !.failures = 2]
                      ELSE [oauth.call EXCEPT !.failures = 1]]

\* An hour passes.
OAuthTick ==
  /\ oauth.now < MaxHours * 3600
  /\ oauth' = [oauth EXCEPT !.now = oauth.now + 3600]

\* ------------------------------- MCP sessions of several registered manuals
\* UtcpClient.registerManual, callTool and deregisterManual on MCP manuals
\* that share one McpCommunicationProtocol, one operation at a time.
VARIABLE
  mcpManuals    \* _mcpSessions (session key -> session), every session
                \* connected so far with the manual and the sub-server
                \* command it was created from, the manuals stored in the
                \* repository and, as history, which session every MCP
                \* operation ran on and which sessions every deregisterManual
                \* closed

MaxManualOps == 3

\* config.mcpServers of the manuals: A and B name their sub-server alike and
\* start different programs; C has a second sub-server.
ManualServers ==
  [A |-> <<[name |-> "fs", transport |-> "stdio", command |-> "serverA"]>>,
   B |-> <<[name |-> "fs", transport |-> "stdio", command |-> "serverB"]>>,
   C |-> <<[name |-> "files", transport |-> "stdio", command |-> "serverC"],
           [name |-> "db", transport |-> "http", command |-> "http://db"]>>]

McpManualNames == DOMAIN ManualServers

\* How _withSession may end: the operation succeeds, connect() rejects when a
\* session has to be created, or the operation rejects with an error that is
\* not classified as a connection error.
WithSessionOutcomes == {"ok", "connect ECONNREFUSED", "Invalid params"}

InitMcpManuals ==
  mcpManuals = [cache |-> EmptyMap, created |-> <<>>, registered |-> {},
                executions |-> {}, closures |-> {}, errors |-> 0, steps |-> 0]

\* _withSession(serverName, serverConfig, auth, operation) for an operation
\* of the manual: _getOrCreateSession returns the session cached under
\* `${serverName}:${transport}` or connects a new one and caches it, and the
\* operation runs on it.
WithSession(manual, sv, outcome, st) ==
  LET key == SessionKey(sv.name, sv.transport)
      has == key \in DOMAIN st.cache
      connects == has \/ outcome # "connect ECONNREFUSED"
      created == IF ~has /\ connects
                   THEN Append(st.created, [manual |-> manual, command |-> sv.command])
                 ELSE st.created
      session == IF has THEN st.cache[key] ELSE Len(created)
  IN [st EXCEPT
        !.created = created,
        !.cache = IF connects THEN MapSet(st.cache, key, session) ELSE st.cache,
        !.executions = IF connects
                         THEN st.executions \cup
                                {[manual |-> manual, command |-> sv.command,
                                  session |-> session]}
                       ELSE st.executions,
        !.errors = IF outcome = "ok" THEN st.errors ELSE st.errors + 1]

\* The loop of McpCommunicationProtocol.registerManual over the sub-servers:
\* an error is collected and the loop goes on.
RECURSIVE DiscoverServers(_, _, _, _)
DiscoverServers(manual, servers, outcomes, st) ==
  IF servers = <<>> THEN st
  ELSE DiscoverServers(manual, Tail(servers), Tail(outcomes),
                       WithSession(manual, Head(servers), Head(outcomes), st))

\* result.success of the MCP protocol, on which UtcpClient.registerManual
\* saves the manual.
StoredAfterDiscovery(allErrors) == allErrors = 0

\* UtcpClient.registerManual of an MCP manual.
McpManualRegister(manual, outcomes) ==
  /\ mcpManuals.steps < MaxManualOps
  /\ LET st == DiscoverServers(manual, ManualServers[manual], outcomes,
                               [mcpManuals EXCEPT !.errors = 0])
     IN mcpManuals' =
          [st EXCEPT !.registered = IF StoredAfterDiscovery(st.errors)
                                      THEN st.registered \cup {manual}
                                    ELSE st.registered,
                     !.steps = mcpManuals.steps + 1]

\* UtcpClient.callTool of a tool of a stored MCP manual, served by the
\* sub-server sv.
McpManualCallTool(manual, i, outcome) ==
  /\ mcpManuals.steps < MaxManualOps
  /\ manual \in mcpManuals.registered
  /\ i \in DOMAIN ManualServers[manual]
  /\ mcpManuals' = [WithSession(manual, ManualServers[manual][i], outcome, mcpManuals)
                      EXCEPT !.steps = mcpManuals.steps + 1]

\* The keys deregisterManual cleans up for a manual.
DeregisteredKeys(manual) ==
  UNION {{SessionKey(ManualServers[manual][i].name, "stdio"),
          SessionKey(ManualServers[manual][i].name, "http")} :
           i \in DOMAIN ManualServers[manual]}

\* UtcpClient.deregisterManual of a stored MCP manual: the protocol closes
\* and forgets the sessions under the keys of the manual's sub-servers, then
\* the repository drops the manual.
McpManualDeregister(manual) ==
  /\ mcpManuals.steps < MaxManualOps
  /\ manual \in mcpManuals.registered
  /\ LET keys == DeregisteredKeys(manual) \cap DOMAIN mcpManuals.cache
     IN mcpManuals' =
          [mcpManuals EXCEPT
             !.cache = MapDeleteAll(mcpManuals.cache, keys),
             !.closures = mcpManuals.closures \cup
                            {[manual |-> manual, session |-> mcpManuals.cache[k]] :
                               k \in keys},
             !.registered = mcpManuals.registered \ {manual},
             !.steps = mcpManuals.steps + 1]

nonClientVars == <<mcpVars, routeVars, copyVars, batchVars, discovery, lookup, pipeline, clientClose, protoStream, registry, cli, httpDiscovery, search, mutex, nsLookup, builtKeys, resub, unionSchema, oauth, mcpManuals>>
nonMcpVars == <<clientVars, routeVars, copyVars, batchVars, discovery, lookup, pipeline, clientClose, protoStream, registry, cli, httpDiscovery, search, mutex, nsLookup, builtKeys, resub, unionSchema, oauth, mcpManuals>>
nonRouteVars == <<clientVars, mcpVars, copyVars, batchVars, discovery, lookup, pipeline, clientClose, protoStream, registry, cli, httpDiscovery, search, mutex, nsLookup, builtKeys, resub, unionSchema, oauth, mcpManuals>>
nonCopyVars == <<clientVars, mcpVars, routeVars, batchVars, discovery, lookup, pipeline, clientClose, protoStream, registry, cli, httpDiscovery, search, mutex, nsLookup, builtKeys, resub, unionSchema, oauth, mcpManuals>>
nonDiscoverVars == <<clientVars, mcpVars, routeVars, copyVars, batchVars, lookup, pipeline, clientClose, protoStream, registry, cli, httpDiscovery, search, mutex, nsLookup, builtKeys, resub, unionSchema, oauth, mcpManuals>>
nonBatchVars == <<mcpVars, routeVars, copyVars, discovery, lookup, pipeline, clientClose, protoStream, registry, cli, httpDiscovery, search, mutex, nsLookup, builtKeys, resub, unionSchema, oauth, mcpManuals>>
nonLookupVars == <<clientVars, mcpVars, routeVars, copyVars, batchVars, discovery, pipeline, clientClose, protoStream, registry, cli, httpDiscovery, search, mutex, nsLookup, builtKeys, resub, unionSchema, oauth, mcpManuals>>
nonPipelineVars == <<clientVars, mcpVars, routeVars, copyVars, batchVars, discovery, lookup, clientClose, protoStream, registry, cli, httpDiscovery, search, mutex, nsLookup, builtKeys, resub, unionSchema, oauth, mcpManuals>>
nonClientCloseVars == <<clientVars, mcpVars, routeVars, copyVars, batchVars, discovery, lookup, pipeline, protoStream, registry, cli, httpDiscovery, search, mutex, nsLookup, builtKeys, resub, unionSchema, oauth, mcpManuals>>
nonProtoStreamVars == <<clientVars, mcpVars, routeVars, copyVars, batchVars, discovery, lookup, pipeline, clientClose, registry, cli, httpDiscovery, search, mutex, nsLookup, builtKeys, resub, unionSchema, oauth, mcpManuals>>
nonRegistryVars == <<clientVars, mcpVars, routeVars, copyVars, batchVars, discovery, lookup, pipeline, clientClose, protoStream, cli, httpDiscovery, search, mutex, nsLookup, builtKeys, resub, unionSchema, oauth, mcpManuals>>
nonCliVars == <<clientVars, mcpVars, routeVars, copyVars, batchVars, discovery, lookup, pipeline, clientClose, protoStream, registry, httpDiscovery, search, mutex, nsLookup, builtKeys, resub, unionSchema, oauth, mcpManuals>>
nonHttpVars == <<clientVars, mcpVars, routeVars, copyVars, batchVars, discovery, lookup, pipeline, clientClose, protoStream, registry, cli, search, mutex, nsLookup, builtKeys, resub, unionSchema, oauth, mcpManuals>>
nonSearchVars == <<clientVars, mcpVars, routeVars, copyVars, batchVars, discovery, lookup, pipeline, clientClose, protoStream, registry, cli, httpDiscovery, mutex, nsLookup, builtKeys, resub, unionSchema, oauth, mcpManuals>>
nonMutexVars == <<clientVars, mcpVars, routeVars, copyVars, batchVars, discovery, lookup, pipeline, clientClose, protoStream, registry, cli, httpDiscovery, search, nsLookup, builtKeys, resub, unionSchema, oauth, mcpManuals>>
nonNsLookupVars == <<clientVars, mcpVars, routeVars, copyVars, batchVars, discovery, lookup, pipeline, clientClose, protoStream, registry, cli, httpDiscovery, search, mutex, builtKeys, resub, unionSchema, oauth, mcpManuals>>
nonKeysVars == <<clientVars, mcpVars, routeVars, copyVars, batchVars, discovery, lookup, pipeline, clientClose, protoStream, registry, cli, httpDiscovery, search, mutex, nsLookup, resub, unionSchema, oauth, mcpManuals>>
nonResubVars == <<clientVars, mcpVars, routeVars, copyVars, batchVars, discovery, lookup, pipeline, clientClose, protoStream, registry, cli, httpDiscovery, search, mutex, nsLookup, builtKeys, unionSchema, oauth, mcpManuals>>
nonUnionSchemaVars == <<clientVars, mcpVars, routeVars, copyVars, batchVars, discovery, lookup, pipeline, clientClose, protoStream, registry, cli, httpDiscovery, search, mutex, nsLookup, builtKeys, resub, oauth, mcpManuals>>
nonOAuthVars == <<clientVars, mcpVars, routeVars, copyVars, batchVars, discovery, lookup, pipeline, clientClose, protoStream, registry, cli, httpDiscovery, search, mutex, nsLookup, builtKeys, resub, unionSchema, mcpManuals>>
nonMcpManualsVars == <<clientVars, mcpVars, routeVars, copyVars, batchVars, discovery, lookup, pipeline, clientClose, protoStream, registry, cli, httpDiscovery, search, mutex, nsLookup, builtKeys, resub, unionSchema, oauth>>

NextRoute ==
  \/ \E name \in RouteManualNames, servers \in SUBSET RouteServerNames \ {{}},
        advertised \in SUBSET RouteLocalNames \ {{}} :
       RouteRegister(name, servers, advertised) /\ UNCHANGED nonRouteVars
  \/ \E t \in routeTools : RouteCall(t) /\ UNCHANGED nonRouteVars
  \/ RouteDeregister /\ UNCHANGED nonRouteVars

NextCopy ==
  \/ \E toolScalar, tplScalar \in ScalarValues, toolNested, tplNested \in NestedValues :
       CopySaveManual(toolScalar, toolNested, tplScalar, tplNested) /\ UNCHANGED nonCopyVars
  \/ \E accessor \in DOMAIN Accessors : CopyRead(accessor) /\ UNCHANGED nonCopyVars
  \/ \E h \in copyHeld, v \in ScalarValues : CallerSetsScalar(h, v) /\ UNCHANGED nonCopyVars
  \/ \E h \in copyHeld, v \in NestedValues : CallerMutatesNested(h, v) /\ UNCHANGED nonCopyVars
  \/ CopyRemoveManual /\ UNCHANGED nonCopyVars

NextBatch ==
  \/ \E templates \in BatchInputs : BatchStart(templates) /\ UNCHANGED nonBatchVars
  \/ \E i \in Calls : BatchItemStart(i) /\ UNCHANGED nonBatchVars
  \/ \E i \in Calls : BatchItemStep(i) /\ UNCHANGED nonBatchVars
  \/ BatchSettled /\ UNCHANGED nonBatchVars

NextDiscover ==
  \/ \E servers \in McpServerLists : McpRegisterStart(servers) /\ UNCHANGED nonDiscoverVars
  \/ \E outcome \in DiscoveryOutcomes : McpRegisterServer(outcome) /\ UNCHANGED nonDiscoverVars
  \/ CliRegisterStart /\ UNCHANGED nonDiscoverVars
  \/ \E outcome \in DiscoveryOutcomes : CliRegisterSettled(outcome) /\ UNCHANGED nonDiscoverVars

NextRepo ==
  \/ \E template \in RepoTemplates :
       \E manual \in RepoManualsFor(template) :
         RepoSaveManual(template, manual) /\ UNCHANGED nonClientVars
  \/ \E manualName \in RepoManualNames : RepoRemoveManual(manualName) /\ UNCHANGED nonClientVars
  \/ \E toolName \in RepoToolNames : RepoRemoveTool(toolName) /\ UNCHANGED nonClientVars

NextClient ==
  \/ \E c \in Calls, template \in Templates : RegisterStart(c, template) /\ UNCHANGED nonClientVars
  \/ \E c \in Calls : RegisterSubstitute(c) /\ UNCHANGED nonClientVars
  \/ \E c \in Calls : RegisterSucceeded(c) /\ UNCHANGED nonClientVars
  \/ \E c \in Calls : RegisterFailed(c) /\ UNCHANGED nonClientVars
  \/ \E c \in Calls, manualName \in ManualNameInputs : DeregisterStart(c, manualName) /\ UNCHANGED nonClientVars
  \/ \E c \in Calls : DeregisterCleanup(c) /\ UNCHANGED nonClientVars
  \/ \E c \in Calls, toolName \in ToolNameInputs : CallToolStart(c, toolName) /\ UNCHANGED nonClientVars
  \/ \E c \in Calls : CallToolDispatch(c) /\ UNCHANGED nonClientVars
  \/ \E c \in Calls : CallToolSettled(c) /\ UNCHANGED nonClientVars
  \/ \E toolName \in ToolNameInputs : RemoveTool(toolName) /\ UNCHANGED nonClientVars

NextMcp ==
  \/ \E o \in Ops, key \in SessionKeys : WithSessionStart(o, key) /\ UNCHANGED nonMcpVars
  \/ \E o \in Ops : ConnectResolved(o) /\ UNCHANGED nonMcpVars
  \/ \E o \in Ops : ConnectRejected(o) /\ UNCHANGED nonMcpVars
  \/ \E o \in Ops : RunResolved(o) /\ UNCHANGED nonMcpVars
  \/ \E o \in Ops : RunRejected(o) /\ UNCHANGED nonMcpVars
  \/ \E o \in Ops : RunTimedOut(o) /\ UNCHANGED nonMcpVars
  \/ \E o \in Ops : CleanupClosed(o) /\ UNCHANGED nonMcpVars
  \/ \E o \in Ops : OAuthResolved(o) /\ UNCHANGED nonMcpVars
  \/ \E o \in Ops : OAuthRejected(o) /\ UNCHANGED nonMcpVars

\* close() called while at most one operation is in flight.
NextMcpClose ==
  \/ \E key \in SessionKeys : WithSessionStart(1, key) /\ UNCHANGED nonMcpVars
  \/ \E o \in Ops : ConnectResolved(o) /\ UNCHANGED nonMcpVars
  \/ \E o \in Ops : ConnectRejected(o) /\ UNCHANGED nonMcpVars
  \/ \E o \in Ops : RunResolved(o) /\ UNCHANGED nonMcpVars
  \/ \E o \in Ops : RunRejected(o) /\ UNCHANGED nonMcpVars
  \/ \E o \in Ops : RunTimedOut(o) /\ UNCHANGED nonMcpVars
  \/ \E o \in Ops : CleanupClosed(o) /\ UNCHANGED nonMcpVars
  \/ \E o \in Ops : OAuthResolved(o) /\ UNCHANGED nonMcpVars
  \/ \E o \in Ops : OAuthRejected(o) /\ UNCHANGED nonMcpVars
  \/ CloseStart /\ UNCHANGED nonMcpVars
  \/ \E key \in SessionKeys : CloseSettled(key) /\ UNCHANGED nonMcpVars

NextLookup ==
  \E config \in LookupConfigs, loaders \in SeqsUpTo(LookupFiles, MaxLoaders),
     env \in LookupEnvs :
    LookupVariable(config, loaders, env) /\ UNCHANGED nonLookupVars

NextPipeline ==
  \/ \E processors \in SeqsUpTo(Processors, MaxProcessors), raw \in RawResults :
       PipeCallTool(processors, raw) /\ UNCHANGED nonPipelineVars
  \/ \E processors \in SeqsUpTo(Processors, MaxProcessors),
        chunks \in SeqsUpTo(RawResults, MaxChunks) :
       PipeStreamStart(processors, chunks) /\ UNCHANGED nonPipelineVars
  \/ PipeStreamNext /\ UNCHANGED nonPipelineVars
  \/ PipeStreamEnd /\ UNCHANGED nonPipelineVars

NextClientClose ==
  \/ \E protocols \in ProtocolMaps : ClientCloseStart(protocols) /\ UNCHANGED nonClientCloseVars
  \/ \E i \in 1..3, outcome \in {"resolved", "rejected"} :
       ProtocolCloseSettled(i, outcome) /\ UNCHANGED nonClientCloseVars
  \/ ClientCloseSettled /\ UNCHANGED nonClientCloseVars

NextProtoStream ==
  \/ \E protocol \in OneChunkProtocols, toolName \in {"t", "u"}, toolArgs \in {"{}", "{x:1}"} :
       ProtoStreamStart(protocol, toolName, toolArgs) /\ UNCHANGED nonProtoStreamVars
  \/ \E called \in CallToolOutcomes : ProtoStreamCalled(called) /\ UNCHANGED nonProtoStreamVars
  \/ ProtoStreamEnd /\ UNCHANGED nonProtoStreamVars

NextRegistry ==
  \/ \E type \in RegistryTypes, instance \in ProtocolInstances, override \in BOOLEAN :
       RegisterCommProtocol(type, instance, override) /\ UNCHANGED nonRegistryVars
  \/ \E type \in RegistryTypes, schema \in TemplateSchemas, override \in BOOLEAN :
       RegisterCallTemplateSchema(type, schema, override) /\ UNCHANGED nonRegistryVars

NextCli ==
  \/ \E commands \in SeqsUpTo(CommandSteps, MaxSteps) \ {<<>>} :
       CliCallTool(commands) /\ UNCHANGED nonCliVars
  \/ ShellRunStep /\ UNCHANGED nonCliVars
  \/ ShellPrintOutputs /\ UNCHANGED nonCliVars
  \/ CliTimeout /\ UNCHANGED nonCliVars
  \/ CliSettled /\ UNCHANGED nonCliVars

NextHttp ==
  \/ \E url \in HttpUrls, method \in HttpMethods :
       HttpRegisterStart(url, method) /\ UNCHANGED nonHttpVars
  \/ \E response \in HttpResponses :
       HttpRegisterSettled(response) /\ UNCHANGED nonHttpVars

NextSearch ==
  \E tools \in ToolLists(MaxSearchTools), query \in SearchQueries, limit \in SearchLimits,
     anyOfTagsRequired \in RequiredTags :
    SearchTools(tools, query, limit, anyOfTagsRequired) /\ UNCHANGED nonSearchVars

NextMutex ==
  \/ \E w \in Writers, op \in WriteOps, throws \in BOOLEAN :
       WriteRequested(w, op, throws) /\ UNCHANGED nonMutexVars
  \/ \E w \in Writers : WriteSection(w) /\ UNCHANGED nonMutexVars

NextNsLookup ==
  \E config \in SourcesOf("config"), loaders \in SeqsUpTo(SourcesOf("file"), MaxLoaders),
     env \in SourcesOf("env") :
    NsLookupVariable(config, loaders, env) /\ UNCHANGED nonNsLookupVars

NextKeys ==
  \E namespace \in KeyNamespaces, name \in KeyNames :
    BuildKey(namespace, name) /\ UNCHANGED nonKeysVars

NextResub ==
  \E config \in ResubConfigs, url \in ResubUrls :
    SubstituteTwice(config, url) /\ UNCHANGED nonResubVars

NextUnionSchema ==
  \/ \E type \in RegistryTypes, schema \in TemplateSchemas, override \in BOOLEAN :
       RegisterCallTemplateSchema(type, schema, override) /\ UNCHANGED nonRegistryVars
  \/ GetCallTemplateUnionSchema /\ UNCHANGED nonUnionSchemaVars

NextOAuth ==
  \/ HandleOAuth2 /\ UNCHANGED nonOAuthVars
  \/ \E req \in oauth.inflight, access_token \in AccessTokens, expires_in \in ExpiresIn :
       TokenResponse(req, access_token, expires_in) /\ UNCHANGED nonOAuthVars
  \/ OAuthTick /\ UNCHANGED nonOAuthVars

NextMcpManuals ==
  \/ \E manual \in McpManualNames, outcomes \in [1..2 -> WithSessionOutcomes] :
       McpManualRegister(manual, outcomes) /\ UNCHANGED nonMcpManualsVars
  \/ \E manual \in McpManualNames, i \in 1..2, outcome \in WithSessionOutcomes :
       McpManualCallTool(manual, i, outcome) /\ UNCHANGED nonMcpManualsVars
  \/ \E manual \in McpManualNames :
       McpManualDeregister(manual) /\ UNCHANGED nonMcpManualsVars

vars == <<clientVars, mcpVars, routeVars, copyVars, batchVars, discovery, lookup, pipeline, clientClose, protoStream, registry, cli, httpDiscovery, search, mutex, nsLookup, builtKeys, resub, unionSchema, oauth, mcpManuals>>

Init == InitClient /\ InitMcp /\ InitRoute /\ InitCopy /\ InitBatch /\ InitDiscover /\ InitLookup /\ InitPipeline /\ InitClientClose /\ InitProtoStream /\ InitRegistry /\ InitCli /\ InitHttp /\ InitSearch /\ InitMutex /\ InitNsLookup /\ InitBuiltKeys /\ InitResub /\ InitUnionSchema /\ InitOAuth /\ InitMcpManuals

\* DefaultVariableSubstitutor._getVariable on every combination of sources.
SpecLookup == Init /\ [][NextLookup]_vars

\* The post-processing of callTool and callToolStreaming.
SpecPipeline == Init /\ [][NextPipeline]_vars

\* UtcpClient.close() over the registered protocols.
SpecClientClose == Init /\ [][NextClientClose]_vars

\* callToolStreaming of the HTTP, MCP, text and CLI protocols.
SpecProtoStream == Init /\ [][NextProtoStream]_vars

\* The plugin registry under registrations of protocols and schemas.
SpecRegistry == Init /\ [][NextRegistry]_vars

\* One callTool of the CLI protocol, for every workflow.
SpecCli == Init /\ [][NextCli]_vars

\* One discovery of the HTTP protocol, for every URL.
SpecHttp == Init /\ [][NextHttp]_vars

\* One search over every repository content, query, limit and tag filter.
SpecSearch == Init /\ [][NextSearch]_vars

\* Concurrent writers of the repository under its write mutex.
SpecMutex == Init /\ [][NextMutex]_vars

\* One lookup of a token under a namespace, for every content of the sources.
SpecNsLookup == Init /\ [][NextNsLookup]_vars

\* Keys built for tokens under namespaces.
SpecKeys == Init /\ [][NextKeys]_vars

\* The substitution of registerManual followed by the one of callTool.
SpecResub == Init /\ [][NextResub]_vars

\* Schema registrations interleaved with calls of getCallTemplateUnionSchema.
SpecUnionSchema == Init /\ [][NextUnionSchema]_vars

\* Calls of _handleOAuth2 for one client id, with the clock.
SpecOAuth == Init /\ [][NextOAuth]_vars

\* Several MCP manuals registered, called and deregistered through one
\* client.
SpecMcpManuals == Init /\ [][NextMcpManuals]_vars

\* The client orchestrator and its repository.
SpecClient == Init /\ [][NextClient]_vars

\* The session handling of the MCP protocol.
SpecMcp == Init /\ [][NextMcp]_vars

\* What the event loop guarantees of an operation in flight: the 15 s timer
\* of the race fires, the token requests end by their 30 s timeout, and the
\* local teardown of a session returns.  Nothing makes the remote server
\* answer.
McpFairness ==
  \A o \in Ops :
    /\ WF_vars(RunTimedOut(o) /\ UNCHANGED nonMcpVars)
    /\ WF_vars(CleanupClosed(o) /\ UNCHANGED nonMcpVars)
    /\ WF_vars((OAuthResolved(o) \/ OAuthRejected(o)) /\ UNCHANGED nonMcpVars)

\* registerManual of the MCP and of the CLI protocol, called directly.
SpecDiscover == Init /\ [][NextDiscover]_vars

\* One call of UtcpClient.registerManuals.
SpecBatch == Init /\ [][NextBatch]_vars

\* The values the repository's reads return, and what callers do to them.
SpecCopy == Init /\ [][NextCopy]_vars

\* The tool repository under direct calls of its write operations.
SpecRepo == Init /\ [][NextRepo]_vars

\* MCP tools from their discovery to their call.
SpecRoute == Init /\ [][NextRoute]_vars

\* The MCP protocol with close().
SpecMcpClose == Init /\ [][NextMcpClose]_vars

\* The session handling of the MCP protocol, with its timers.
SpecMcpLive == Init /\ [][NextMcp]_vars /\ McpFairness

\* ------------------------------------------------- claims on the client
RepositoryUnchanged == UNCHANGED <<manuals, manualCallTemplates, toolsByName>>

\* This step starts a registerManual call whose sanitized name is n: the
\* call either goes on to substitution or settles within the step.
RegisterBegins(n) ==
  \/ \E c \in Calls : /\ calls[c].pc = "idle"
                      /\ calls'[c].kind = "register" /\ calls'[c].arg = n
  \/ calls' = calls /\ lastResult'.kind = "register" /\ lastResult'.arg = n

\* C1: a registerManual for a name n whose registration succeeded, with no
\* deregisterManual(n) since, fails with the duplicate error within its
\* first step: no call stays in flight (no protocol is dispatched) and the
\* manuals, call templates and tools are unchanged.
C1_DuplicateRejected ==
  [][\A n \in registeredOk :
       RegisterBegins(n) =>
         /\ lastResult' = [kind |-> "register", arg |-> n, result |-> "duplicate"]
         /\ calls' = calls
         /\ RepositoryUnchanged]_vars

\* A duplicate registration has just been refused.
C1_Witness ==
  /\ lastResult.kind = "register" /\ lastResult.result = "duplicate"
  /\ lastResult.arg \in registeredOk

\* C2: a registerManual stores its manual only under a name that holds no
\* manual at that moment (no implicit overwrite).
C2_NoImplicitOverwrite ==
  [][(lastResult'.kind = "register" /\ lastResult'.result = "success")
       => lastResult'.arg \notin DOMAIN manuals]_vars

\* C3: a name enters the repository only in the step in which a
\* registerManual for it settles with success = true, and a registerManual
\* that throws or returns success = false leaves the three maps unchanged.
C3_OnlySuccessRegisters ==
  [][/\ \A n \in (DOMAIN manuals') \ (DOMAIN manuals) :
          lastResult' = [kind |-> "register", arg |-> n, result |-> "success"]
     /\ (lastResult'.kind = "register" /\ lastResult'.result # "success")
          => RepositoryUnchanged]_vars

\* A discovery has just failed for a name that is not registered.
C3_Witness ==
  /\ lastResult.kind = "register"
  /\ lastResult.result \in {"failed", "threw"}
  /\ lastResult.arg \notin DOMAIN manuals

\* C4: a deregisterManual that found its manual's call template removes the
\* manual, however the protocol's deregisterManual settled.
C4_CleanupFailureDoesNotBlock ==
  [][\A c \in Calls :
       (calls[c].kind = "deregister" /\ calls[c].pc = "cleanup" /\ calls'[c].pc = "idle")
         => calls[c].arg \notin DOMAIN manuals']_vars

\* C5: when deregisterManual(n) returns true, n has no manual and no call
\* template, no tool named "n. ..." is in the index, and every other entry
\* is as before; when it returns false nothing has changed; a callTool goes
\* past its lookup only for a tool that is in the index.
C5_DeregisterRemoves ==
  [][/\ (lastResult'.kind = "deregister" /\ lastResult'.result = "true") =>
          LET n == lastResult'.arg
          IN /\ n \notin DOMAIN manuals'
             /\ n \notin DOMAIN manualCallTemplates'
             /\ \A t \in DOMAIN toolsByName' : ~StartsWith(t, n \o ".")
             /\ DOMAIN manuals' = (DOMAIN manuals) \ {n}
             /\ DOMAIN manualCallTemplates' = (DOMAIN manualCallTemplates) \ {n}
             /\ DOMAIN toolsByName' =
                  {t \in DOMAIN toolsByName : ~StartsWith(t, n \o ".")}
             /\ \A m \in DOMAIN manuals' :
                  /\ manuals'[m] = manuals[m]
                  /\ manualCallTemplates'[m] = manualCallTemplates[m]
             /\ \A t \in DOMAIN toolsByName' : toolsByName'[t] = toolsByName[t]
     /\ (lastResult'.kind = "deregister" /\ lastResult'.result = "false")
          => RepositoryUnchanged
     /\ \A c \in Calls :
          (calls[c].pc = "idle" /\ calls'[c].kind = "callTool")
            => calls'[c].arg \in DOMAIN toolsByName
     /\ \A t \in ToolNameInputs :
          (lastResult'.kind = "callTool" /\ lastResult'.arg = t /\ calls' = calls
             /\ ManualNameOf(t) # "" /\ t \notin DOMAIN toolsByName)
            => lastResult'.result = "tool_not_found"]_vars

\* A manual with tools has just been deregistered while another manual
\* stays registered.
C5_Witness ==
  /\ lastResult.kind = "deregister" /\ lastResult.result = "true"
  /\ DOMAIN manuals # {}
  /\ DOMAIN toolsByName # {}

\* Manual names the client can store.
StoredNames == {Sanitize(n) : n \in RawNames \ {""}} \cup {Sanitize(RandomUUID(k)) : k \in 1..MaxUuid}

\* C6: every tool stored for a manual m has a name that begins with "m.";
\* a discovered tool named d is stored as m.d, or as d when d begins with
\* "m.", never with the prefix twice; the index key of a tool is its name;
\* and renaming a renamed tool changes nothing.
C6_NamespacingIdempotent ==
  /\ \A m \in DOMAIN manuals : \A i \in 1..Len(manuals[m].tools) :
       LET nm == manuals[m].tools[i].name
       IN /\ StartsWith(nm, m \o ".")
          /\ nm \in DOMAIN toolsByName
          /\ \E d \in DiscoveredNames :
               \/ nm = d
               \/ nm = m \o "." \o d /\ ~StartsWith(d, m \o ".")
  /\ \A t \in DOMAIN toolsByName : toolsByName[t].name = t
  /\ \A m \in StoredNames, d \in DiscoveredNames :
       /\ PrefixName(m, PrefixName(m, d)) = PrefixName(m, d)
       /\ PrefixName(m, m \o "." \o d) = m \o "." \o d

\* A manual named a_ is stored with two tools, both named a_.t.
C6_Witness ==
  /\ "a_" \in DOMAIN manuals
  /\ Len(manuals["a_"].tools) = 2
  /\ DOMAIN toolsByName = {"a_.t"}

\* ---------------------------------------------- claims on the MCP sessions
\* The sessions of a key whose connection was established.
EstablishedFor(key) ==
  {s \in 1..Len(sessions) :
     sessions[s].key = key /\ sessions[s].state \in {"connected", "closed", "close_failed"}}

\* C7 as stated: once an operation on a key has settled, and no operation on
\* it overlapped another or failed with a recoverable connection error,
\* exactly one session has been created for the key.
C7_ExactlyOneSessionByFirst ==
  \A key \in SessionKeys :
    keyHistory[key] = "settled" => Cardinality(EstablishedFor(key)) = 1

\* C7, amended: for operations on one key that run one after another and of
\* which none fails with a recoverable connection error, at most one session
\* is established; it is the cached one and stays connected; no session
\* object is created after it; and every attempt runs on it.
C7_SessionReuse ==
  \A key \in SessionKeys :
    keyHistory[key] # "dirty" =>
      /\ Cardinality(EstablishedFor(key)) <= 1
      /\ \A e \in EstablishedFor(key) :
           /\ HasSession(key) /\ mcpSessions[key] = e
           /\ sessions[e].state = "connected"
           /\ \A s \in 1..Len(sessions) : sessions[s].key = key => s <= e
      /\ \A o \in Ops :
           ops[o].pc = "run" /\ ops[o].key = key => ops[o].client \in EstablishedFor(key)
      /\ lastOp.key = key /\ lastOp.tries > 0 => lastOp.client \in EstablishedFor(key)

\* An operation whose connection set-up failed is followed by one that
\* establishes the session and by one that reuses it.
C7_Witness ==
  \E key \in SessionKeys :
    /\ keyHistory[key] = "settled"
    /\ lastOp.key = key /\ lastOp.result = "ok" /\ lastOp.built = 0
    /\ Cardinality(EstablishedFor(key)) = 1
    /\ \E s \in 1..Len(sessions) : sessions[s].key = key /\ sessions[s].state = "failed"

\* C8 as stated: an operation whose first attempt failed with a recoverable
\* connection error has built exactly one new session and has been attempted
\* exactly once more when it settles.
C8_ExactlyOneRebuildAndRetry ==
  lastOp.phase = 2 => lastOp.rebuilds = 1 /\ lastOp.retries = 1

\* C8, amended: after a recoverable first failure the cached session is closed
\* and removed and one rebuild is attempted; the operation is attempted once
\* more exactly when the rebuild succeeds; any other first error, and any
\* second failure, ends the operation; there are at most two attempts and at
\* most one rebuild.
C8_RetryOnce ==
  [][/\ lastOp'.result # "none" =>
          /\ lastOp'.tries <= 2 /\ lastOp'.rebuilds <= 1
          /\ lastOp'.retries = lastOp'.rebuilds
          /\ lastOp'.firstError = "MCP error -32000: Connection closed" =>
               lastOp'.phase = 2
          /\ lastOp'.firstError = "Invalid params" =>
               /\ lastOp'.phase = 1 /\ lastOp'.result = "failed"
               /\ lastOp'.tries <= 1 /\ lastOp'.rebuilds = 0
          /\ lastOp'.firstError = "" => lastOp'.phase = 1 /\ lastOp'.result = "ok"
          /\ lastOp'.phase = 2 /\ lastOp'.retries = 0 => lastOp'.result = "failed"
     /\ \A o \in Ops :
          /\ ops[o].phase = 1 /\ ops'[o].phase = 2 /\ HasSession(ops[o].key) =>
               ops'[o].pc = "closing" /\ ops'[o].client = mcpSessions[ops[o].key]
          /\ ops[o].pc = "closing" /\ ops'[o].pc # "closing" =>
               /\ sessions'[ops[o].client].state \in {"closed", "close_failed"}
               /\ ops[o].key \notin DOMAIN mcpSessions'
               /\ \/ ops'[o].pc = "connect" /\ ops'[o].client = Len(sessions')
                  \/ ops'[o].pc = "oauth" /\ NeedsToken(ops[o].key)
    ]_vars

\* A recoverable first failure, a teardown, a rebuild and a second attempt
\* that succeeds.
C8_Witness ==
  /\ lastOp.result = "ok" /\ lastOp.phase = 2
  /\ lastOp.firstError = "MCP error -32000: Connection closed"
  /\ lastOp.tries = 2 /\ lastOp.rebuilds = 1
  /\ \E s \in 1..Len(sessions) : sessions[s].key = lastOp.key /\ sessions[s].state = "closed"

\* C9: every connected session of a key is the one the cache holds for the
\* key.
C9_OneConnectedSessionPerKey ==
  \A s \in 1..Len(sessions) :
    sessions[s].state = "connected" =>
      HasSession(sessions[s].key) /\ mcpSessions[sessions[s].key] = s

\* C10: when the timer wins the race the operation settles with the timeout
\* error, and the cache and the sessions are left as they were.
C10_TimeoutKeepsSession ==
  [][\A o \in Ops :
       RunTimedOut(o) =>
         /\ lastOp'.result = "timeout"
         /\ mcpSessions' = mcpSessions /\ sessions' = sessions]_vars

\* C11: every operation dispatched to the MCP protocol eventually settles,
\* even if the remote server never answers (the operation is only let off
\* when the model's bound on the number of sessions has been reached).
C11_EveryOperationSettles ==
  \A o \in Ops :
    (ops[o].pc # "idle") ~> (ops[o].pc = "idle" \/ Len(sessions) = MaxSessions)

\* A call of close() completes in this step.
CloseCompletes == closeCall'.completed = closeCall.completed + 1

\* The sessions that were cached when the close() that completes in this step
\* started.
CachedAtCloseStart ==
  IF closeCall.pc = "closing" THEN closeCall.targets
  ELSE {mcpSessions[k] : k \in DOMAIN mcpSessions}

C13_StoredToolIsInvocable ==
  \A t \in routeTools :
    routeCall.name = t.name =>
      /\ routeCall.outcome = "executed"
      /\ routeCall.server = t.server /\ routeCall.tool = t.local

\* What the repository holds for the manual: its call template, its
\* manual, and the index entries of its tools.
EntriesOf(name, tpls, mans, index) ==
  [template |-> tpls[name], manual |-> mans[name],
   indexed |-> {index[n] : n \in ToolNamesOf(mans[name]) \cap DOMAIN index}]

\* C14: saveManual for a name that has a manual replaces it: the call template
\* and the manual stored are the new ones, the old manual's tools that are not
\* in the new one are gone from the index, the new one's tools are in it, and
\* the entries of every other manual are as before.
C14_SaveManualReplaces ==
  [][\A template \in RepoTemplates :
       \A manual \in RepoManualsFor(template) :
         RepoSaveManual(template, manual) /\ HasManual(template.name) =>
           /\ manualCallTemplates'[template.name] = template
           /\ manuals'[template.name] = manual
           /\ \A n \in ToolNamesOf(manuals[template.name]) \ ToolNamesOf(manual) :
                n \notin DOMAIN toolsByName'
           /\ \A i \in 1..Len(manual.tools) :
                /\ manual.tools[i].name \in DOMAIN toolsByName'
                /\ toolsByName'[manual.tools[i].name] = manual.tools[i]
           /\ \A other \in DOMAIN manuals \ {template.name} :
                /\ other \in DOMAIN manuals' /\ other \in DOMAIN manualCallTemplates'
                /\ EntriesOf(other, manualCallTemplates', manuals', toolsByName')
                     = EntriesOf(other, manualCallTemplates, manuals, toolsByName)
                /\ \A n \in ToolNamesOf(manuals[other]) :
                     n \in DOMAIN toolsByName' <=> n \in DOMAIN toolsByName
    ]_vars

\* A manual with two tools has been replaced by one without tools while
\* another manual keeps its tools.
C14_Witness ==
  /\ lastResult.kind = "saveManual" /\ lastResult.result = "replaced"
  /\ lastResult.arg = "a_" /\ manuals["a_"].tools = <<>>
  /\ "b" \in DOMAIN manuals /\ Len(manuals["b"].tools) = 2
  /\ DOMAIN toolsByName = {"b.t", "b.u"}

\* C16: removeTool returns true exactly when the tool was in the index; then
\* the tool is gone from the index and from the tool list of its manual and
\* every other tool is as before; when it returns false nothing has changed.
C16_RemoveToolDetaches ==
  [][\A toolName \in RepoToolNames :
       RepoRemoveTool(toolName) =>
         /\ lastResult'.result = "true" <=> toolName \in DOMAIN toolsByName
         /\ lastResult'.result = "true" =>
              /\ toolName \notin DOMAIN toolsByName'
              /\ \A m \in DOMAIN manuals' : toolName \notin ToolNamesOf(manuals'[m])
              /\ DOMAIN manuals' = DOMAIN manuals
              /\ manualCallTemplates' = manualCallTemplates
              /\ \A n \in DOMAIN toolsByName \ {toolName} :
                   n \in DOMAIN toolsByName' /\ toolsByName'[n] = toolsByName[n]
              /\ \A m \in DOMAIN manuals :
                   manuals'[m].tools = FilterOutName(manuals[m].tools, toolName)
         /\ lastResult'.result = "false" =>
              /\ manuals' = manuals /\ toolsByName' = toolsByName
              /\ manualCallTemplates' = manualCallTemplates
    ]_vars

\* A tool has been removed from a manual that keeps its other tool.
C16_Witness ==
  /\ lastResult.kind = "removeTool" /\ lastResult.result = "true"
  /\ lastResult.arg = "a_.t"
  /\ "a_" \in DOMAIN manuals /\ ToolNamesOf(manuals["a_"]) = {"a_.u"}
  /\ DOMAIN toolsByName = {"a_.u"}

\* What a read of the repository returns for each stored object, nested
\* contents included.
ReadsReturn ==
  [k \in DOMAIN copyStored |->
     [scalar |-> copyStored[k].scalar, nested |-> copyHeap[copyStored[k].nested]]]

\* C15: no mutation a caller performs on a returned value, its nested fields
\* included, changes what later reads return.
C15_ReadsAreDefensiveCopies ==
  [][(\E h \in copyHeld :
        \/ \E v \in ScalarValues : CallerSetsScalar(h, v)
        \/ \E v \in NestedValues : CallerMutatesNested(h, v))
       => ReadsReturn' = ReadsReturn]_vars

\* The joined promise of registerManuals has settled.
BatchDone == batchCall.outcome \notin {"none", "pending"}

\* The result of the i-th template is a failed one.
BatchItemFailed(b, i) ==
  b.results[i].state = "returned" /\ ~b.results[i].success

\* C17: registerManuals never rejects and returns one result per input
\* template in input order; a template whose registration throws or fails
\* yields success=false with the message in errors, and its failure leaves
\* the registrations of the other templates of the batch as they are: they
\* go on, and those that succeed are stored.
C17_BatchIsolatesFailures ==
  /\ [](BatchDone =>
          /\ batchCall.outcome = "resolved"
          /\ Len(batchCall.results) = Len(batchCall.templates)
          /\ \A i \in 1..Len(batchCall.templates) :
               LET r == batchCall.results[i]
                   given == batchCall.templates[i].name
               IN /\ r.state = "returned"
                  /\ given # "" => r.name = Sanitize(given)
                  /\ r.success <=> r.errors = <<>>
                  /\ r.success => r.name \in DOMAIN manuals)
  /\ [][\A i \in 1..Len(batchCall.templates) :
          (~BatchItemFailed(batchCall, i) /\ BatchItemFailed(batchCall', i))
            => \A j \in 1..Len(batchCall.templates) \ {i} :
                 /\ batchCall'.results[j] = batchCall.results[j]
                 /\ batchCall'.slots[j] = batchCall.slots[j]
                 /\ batchCall.slots[j] # 0
                      => calls'[batchCall.slots[j]] = calls[batchCall.slots[j]]
                 /\ batchCall.results[j].success
                      => batchCall.results[j].name \in DOMAIN manuals']_vars

\* A batch has returned in which the first template failed by a thrown error
\* and the second one was registered after that.
C17_Witness ==
  /\ BatchDone
  /\ Len(batchCall.templates) = 2
  /\ batchCall.results[1].errors = <<VariableNotFound("MISSING")>>
  /\ batchCall.results[2].success
  /\ batchCall.results[2].name \in DOMAIN manuals

\* C18: a registerManual that met a discovery failure returns success=false
\* with at least one error and an empty tool list; in every returned result
\* success is true exactly when errors is empty.
C18_DiscoveryFailureReported ==
  discovery.state = "returned" =>
    /\ discovery.result.success <=> discovery.result.errors = <<>>
    /\ discovery.failureMet =>
         /\ ~discovery.result.success
         /\ Len(discovery.result.errors) >= 1
         /\ discovery.result.tools = <<>>

\* The step is one of the call in slot c.
StepOf(c) == calls'[c] # calls[c]

\* C19: callTool for a name whose tool is not in the repository, or whose
\* owning manual has no stored call template, throws its error within the
\* step that finds it out: the call never goes on to substitution or to the
\* protocol, and no state changes.
C19_CallToolFailsFast ==
  [][/\ \A c \in Calls :
          \* no callTool goes on after getTool for a tool that is not stored
          /\ (calls[c].pc = "idle" /\ calls'[c].kind = "callTool")
               => calls'[c].arg \in DOMAIN toolsByName
          \* a call whose manual has no call template throws at that point
          /\ (/\ calls[c].kind = "callTool" /\ calls[c].pc = "template" /\ StepOf(c)
              /\ ManualNameOf(calls[c].arg) \notin DOMAIN manualCallTemplates)
               => /\ lastResult' = [kind |-> "callTool", arg |-> calls[c].arg,
                                    result |-> "template_not_found"]
                  /\ calls'[c] = IdleCall
                  /\ RepositoryUnchanged /\ UNCHANGED uuidCount
     \* a callTool that settles in its first step throws for the missing tool
     /\ (calls' = calls /\ lastResult'.kind = "callTool")
          => /\ lastResult'.result \in {"invalid_name", "tool_not_found"}
             /\ lastResult'.arg \notin DOMAIN toolsByName
             /\ RepositoryUnchanged /\ UNCHANGED uuidCount]_vars

\* A callTool has failed because the manual of its tool, deregistered after
\* the tool was read, has no call template.
C19_Witness ==
  /\ lastResult.kind = "callTool"
  /\ lastResult.result = "template_not_found"
  /\ ManualNameOf(lastResult.arg) \notin DOMAIN manualCallTemplates

\* The string holds a ${NAME} or $NAME token.
HasToken(s) == \E i \in 1..Len(s) : TokenAt(s, i).len > 0

TemplateHasToken(tpl) ==
  HasToken(tpl.name) \/ HasToken(tpl.call_template_type) \/ HasToken(tpl.url)

\* The names of the tokens of the template that no source resolves.
UnresolvedIn(tpl, namespace) ==
  {name \in UNION {{TokenAt(s, i).name : i \in 1..Len(s)} :
                      s \in {tpl.name, tpl.call_template_type, tpl.url}} :
     name # "" /\ ~GetVariable(name, namespace).found}

\* The step substitutes the call template of the call in slot c: in
\* registerManual, or in a callTool whose manual has a call template.
Substitutes(c) ==
  /\ StepOf(c)
  /\ \/ calls[c].kind = "register" /\ calls[c].pc = "substitute"
     \/ /\ calls[c].kind = "callTool" /\ calls[c].pc = "template"
        /\ ManualNameOf(calls[c].arg) \in DOMAIN manualCallTemplates

SubstitutionNamespace(c) ==
  IF calls[c].kind = "register" THEN calls[c].tpl.name ELSE ManualNameOf(calls[c].arg)

\* C20: a call template with a token that no source resolves makes
\* registerManual / callTool fail with VariableNotFound carrying the name of
\* such a token; the protocol is not invoked and the repository is unchanged;
\* no template that still holds a token is passed to a protocol or stored as
\* a manual's call template.
C20_UnresolvedVariableAborts ==
  /\ [](/\ \A c \in Calls :
             calls[c].pc \in {"discover", "invoke"} => ~TemplateHasToken(calls[c].tpl)
        /\ \A m \in DOMAIN manualCallTemplates : ~TemplateHasToken(manualCallTemplates[m]))
  /\ [][\A c \in Calls :
          Substitutes(c) =>
            LET unresolved == UnresolvedIn(calls[c].tpl, SubstitutionNamespace(c))
            IN IF unresolved # {}
                 THEN /\ \E name \in unresolved :
                           lastResult'.result = VariableNotFound(name)
                      /\ calls'[c] = IdleCall
                      /\ RepositoryUnchanged
                 ELSE ~StartsWith(lastResult'.result, "variable_not_found")]_vars

\* A callTool has failed with VariableNotFound for MISSING, the second token
\* of a tool's call template whose first token is resolved.
C20_Witness ==
  /\ lastResult.kind = "callTool"
  /\ lastResult.result = VariableNotFound("MISSING")
  /\ lastResult.arg \in DOMAIN toolsByName
  /\ toolsByName[lastResult.arg].tool_call_template.url = "http://${KEY}/$MISSING"

\* The sources of a lookup in the order of precedence.
SourcesInOrder(l) == <<l.config>> \o l.loaders \o <<l.env>>

\* The source defines the token X of the namespace NS.
DefinesX(source) == "NS__X" \in DOMAIN source \/ "X" \in DOMAIN source

\* C21: the token is resolved from the first source that defines it, in the
\* order configuration, loaders in declared order, environment; with no
\* source defining it the lookup fails with VariableNotFoundError for X.
C21_FirstDefiningSourceWins ==
  lookup # NoLookup =>
    LET sources == SourcesInOrder(lookup)
        defining == {i \in 1..Len(sources) : DefinesX(sources[i])}
    IN IF defining = {}
         THEN lookup.result = [found |-> FALSE, value |-> "X"]
         ELSE LET first == CHOOSE i \in defining : \A j \in defining : i <= j
              IN /\ lookup.result.found
                 /\ lookup.result.value \in {sources[first][k] : k \in DOMAIN sources[first]}

\* The value after the first k processors of the configuration, in
\* configuration order, each taking the output of the one before.
ThroughChain(processors, raw) ==
  LET after[k \in 0..Len(processors)] ==
        IF k = 0 THEN raw ELSE PostProcess(processors[k], after[k - 1])
  IN after[Len(processors)]

\* C22: callTool returns the raw result passed through every configured
\* post-processor in configuration order; callToolStreaming yields, for each
\* chunk of the protocol and in the same order, that chunk passed through the
\* same chain, and as many chunks as the protocol yielded once it has ended.
C22_PostProcessedInOrder ==
  /\ pipeline.mode = "call" =>
       pipeline.out = <<ThroughChain(pipeline.processors, pipeline.raw[1])>>
  /\ pipeline.mode = "stream" =>
       /\ Len(pipeline.out) + Len(pipeline.pending) = Len(pipeline.raw)
       /\ \A i \in 1..Len(pipeline.out) :
            pipeline.out[i] = ThroughChain(pipeline.processors, pipeline.raw[i])
       /\ pipeline.done => Len(pipeline.out) = Len(pipeline.raw)

\* A stream of two chunks has ended under two processors whose order shows in
\* the chunks yielded.
C22_Witness ==
  /\ pipeline.mode = "stream" /\ pipeline.done
  /\ pipeline.processors = <<[tool_post_processor_type |-> "mark", limit |-> 0],
                             [tool_post_processor_type |-> "limit_strings", limit |-> 2]>>
  /\ pipeline.raw = <<"ab", "">>
  /\ pipeline.out = <<"ab", "+">>

\* C23: client.close() invokes close() on every registered protocol instance
\* and returns, resolving or rejecting, only after every one of those calls
\* has settled, also when one of them fails.
C23_CloseWaitsForAll ==
  /\ clientClose.outcome # "none" =>
       \A type \in DOMAIN clientClose.protocols :
         \E i \in 1..Len(clientClose.closePromises) :
           clientClose.closePromises[i].instance = clientClose.protocols[type]
  /\ clientClose.outcome \in {"resolved", "rejected"} =>
       \A i \in 1..Len(clientClose.closePromises) :
         clientClose.closePromises[i].state # "pending"

\* C24: callToolStreaming of the HTTP, MCP, text and CLI protocols yields
\* exactly one chunk, the result of callTool, and then ends; when callTool
\* fails the stream fails without a chunk.
C24_OneChunkEqualToResult ==
  /\ protoStream.state = "calling" => protoStream.chunks = <<>>
  /\ protoStream.state \in {"yielded", "ended"} /\ protoStream.protocol # "none" =>
       protoStream.called.ok /\ protoStream.chunks = <<protoStream.called.value>>
  /\ protoStream.state = "failed" =>
       ~protoStream.called.ok /\ protoStream.chunks = <<>>

\* A stream of the CLI protocol has ended after its one chunk.
C24_Witness ==
  /\ protoStream.protocol = "cli" /\ protoStream.state = "ended"
  /\ protoStream.chunks = <<"xyz">>

\* The map of the registry that the last call of the step was about, before
\* and after the step.
RegistryMapBefore == IF registry'.last.op = "protocol" THEN registry.protocols ELSE registry.schemas
RegistryMapAfter == IF registry'.last.op = "protocol" THEN registry'.protocols ELSE registry'.schemas

\* The step's call is refused: it returns false and changes neither map.
RegistrationRefused ==
  /\ ~registry'.last.returned
  /\ registry'.protocols = registry.protocols /\ registry'.schemas = registry.schemas

\* The step's call installs its entry under its type, leaves every other
\* entry of both maps as it was, and returns true.
RegistrationInstalled ==
  /\ registry'.last.returned
  /\ RegistryMapAfter = MapSet(RegistryMapBefore, registry'.last.type, registry'.last.entry)
  /\ registry'.last.op = "protocol" => registry'.schemas = registry.schemas
  /\ registry'.last.op = "schema" => registry'.protocols = registry.protocols

\* C25 as stated: a registration without override for a registered type
\* returns false and leaves the entry; every other registration installs the
\* new entry and returns true.
C25_DuplicateRefusedElseInstalled ==
  [][registry' # registry =>
       IF registry'.last.type \in DOMAIN RegistryMapBefore /\ ~registry'.last.override
         THEN RegistrationRefused ELSE RegistrationInstalled]_vars

\* C25, amended: as stated for registerCommProtocol, and for
\* registerCallTemplateSchema when the schema is an object schema with a
\* literal call_template_type; any other schema is refused, with or without
\* override and whether or not the type is registered.
C25_Amended ==
  [][registry' # registry =>
       IF \/ registry'.last.type \in DOMAIN RegistryMapBefore /\ ~registry'.last.override
          \/ registry'.last.op = "schema" /\ ~HasLiteralType(registry'.last.entry)
         THEN RegistrationRefused ELSE RegistrationInstalled]_vars

\* A schema has replaced another one under override, after a schema that is
\* no object with a literal type was refused for the same type.
C25_Witness ==
  /\ registry.last = [op |-> "schema", type |-> "http", entry |-> "object2",
                      override |-> TRUE, had |-> TRUE, returned |-> TRUE]
  /\ registry.schemas["http"] = "object2"
  /\ "cli" \notin DOMAIN registry.schemas

\* C26: within one CLI callTool every step finds the working directory and
\* the environment as the step before it left them, and the workflow
\* [cd /tmp, pwd] returns /tmp as its sole output.
C26_StatePersistsAcrossSteps ==
  /\ \A i \in DOMAIN cli.ran :
       i + 1 \in DOMAIN cli.ran => cli.ran[i + 1].seen = cli.ran[i].left
  /\ /\ cli.pc = "returned"
     /\ Len(cli.commands) = 2
     /\ cli.commands[1].command = "cd /tmp" /\ cli.commands[2].command = "pwd"
     /\ cli.commands[1].append_to_final_output # "true"
     /\ cli.commands[2].append_to_final_output # "false"
     => cli.result = [type |-> "string", value |-> "/tmp"]

\* C27: once a step has exited with a non-zero status no later step has
\* run, nothing is returned and the call ends with an error; once the timer
\* has fired the child is killed and the call has thrown.
C27_FailedStepAbortsWorkflow ==
  /\ \A k \in DOMAIN cli.ran :
       cli.ran[k].status # 0 =>
         /\ \A j \in DOMAIN cli.ran : j <= k
         /\ cli.pc \in {"exited", "threw"}
         /\ cli.pc = "exited" => cli.exitCode # 0
         /\ cli.result.type \in {"none", "error"}
  /\ cli.killed => cli.pc = "threw" /\ cli.result.type = "error"

\* The step contributes to the returned string: its flag is true, or it is
\* unspecified and the step is the last one.
Contributes(k) ==
  \/ cli.commands[k].append_to_final_output = "true"
  \/ cli.commands[k].append_to_final_output = "undefined" /\ k = Len(cli.commands)

\* The captured outputs of the contributing steps from step k on, in step
\* order, one per line.
RECURSIVE ContributingOutputs(_)
ContributingOutputs(k) ==
  IF k > Len(cli.commands) THEN ""
  ELSE LET rest == ContributingOutputs(k + 1)
       IN IF Contributes(k)
            THEN VarValue(cli.sh, k - 1)
                   \o (IF \E m \in (k + 1)..Len(cli.commands) : Contributes(m)
                         THEN "\n" ELSE "") \o rest
            ELSE rest

\* C28: a string returned by a CLI callTool consists of the captured outputs
\* of exactly the contributing steps, in step order.
C28_ReturnsContributingOutputsInOrder ==
  cli.pc = "returned" /\ cli.result.type = "string"
    => cli.result.value = Trim(ContributingOutputs(1))

\* C29: in step j a reference to $CMD_i_OUTPUT with i < j has the value of
\* the trimmed output of step i (the empty string for a cd step); a
\* reference with i >= j is not replaced and takes no step's output.
C29_ReferencesSeeEarlierOutputs ==
  \A j \in DOMAIN cli.ran : \A i \in DOMAIN cli.ran[j].refs :
    IF i < j
      THEN cli.ran[j].refs[i].value =
             (IF cli.script.steps[i + 1].captured THEN Trim(cli.ran[i].out) ELSE "")
      ELSE ~cli.ran[j].refs[i].replaced /\ cli.ran[j].refs[i].value = ""

\* The part of s before the first character of stops.
RECURSIVE TakeUntil(_, _)
TakeUntil(s, stops) ==
  IF Len(s) = 0 \/ SubSeq(s, 1, 1) \in stops THEN ""
  ELSE SubSeq(s, 1, 1) \o TakeUntil(SubSeq(s, 2, Len(s)), stops)

\* The part of s after the last ch, or s if it holds none.
AfterLast(s, ch) ==
  LET ps == {p \in 1..Len(s) : SubSeq(s, p, p) = ch}
  IN IF ps = {} THEN s
     ELSE LET p == CHOOSE x \in ps : \A y \in ps : y <= x
          IN SubSeq(s, p + 1, Len(s))

SchemeOf(url) == TakeUntil(url, {":"})

\* The host of a URL: its authority (between :// and the first /, ? or #),
\* less the user information before the last @ and the port after the colon.
HostOf(url) ==
  LET rest == SubSeq(url, Len(SchemeOf(url)) + 4, Len(url))
      authority == TakeUntil(rest, {"/", "?", "#"})
  IN TakeUntil(AfterLast(authority, "@"), {":"})

SecureOrLocal(url) == SchemeOf(url) = "https" \/ HostOf(url) \in {"localhost", "127.0.0.1"}

\* C30: HTTP discovery sends a request only to a URL that uses HTTPS or
\* whose host is localhost or 127.0.0.1; for any other URL no request is
\* made and the result is a failure with a security error.
C30_DiscoveryOnlyOverHttpsOrLocal ==
  /\ \A request \in httpDiscovery.requests : SecureOrLocal(request.url)
  /\ httpDiscovery.pc = "settled" /\ ~SecureOrLocal(httpDiscovery.url) =>
       /\ httpDiscovery.requests = {}
       /\ ~httpDiscovery.result.success
       /\ Len(httpDiscovery.result.errors) = 1
       /\ StartsWith(httpDiscovery.result.errors[1], "Security error")

\* Position in the repository of the tool of that name.
SearchIndex(name) == CHOOSE k \in 1..Len(search.tools) : search.tools[k].name = name

SearchScore(k) == Score(search.tools[k], search.query)

\* The tool has a tag that is, letter case aside, one of the required tags
\* (every tool, when no tag is required).
HasRequiredTag(k) ==
  \/ search.anyOfTagsRequired = <<>>
  \/ {ToLower(t) : t \in Range(search.tools[k].tags)}
       \cap {ToLower(r) : r \in Range(search.anyOfTagsRequired)} # {}

\* Positions of the tools that pass the prefilter and score above zero.
Eligible == {k \in 1..Len(search.tools) : HasRequiredTag(k) /\ SearchScore(k) > 0}

\* Tool a ranks before tool b: higher score, or equal score and earlier in
\* the repository.
RanksBefore(a, b) ==
  SearchScore(a) > SearchScore(b) \/ (SearchScore(a) = SearchScore(b) /\ a < b)

ResultIndices == [i \in 1..Len(search.result) |-> SearchIndex(search.result[i])]

\* The result is the list of the eligible tools in rank order, cut to the
\* first limit entries when limit > 0.
ResultIsRankedEligible ==
  /\ \A i \in 1..Len(search.result) : ResultIndices[i] \in Eligible
  /\ \A i, j \in 1..Len(search.result) : i < j => RanksBefore(ResultIndices[i], ResultIndices[j])
  /\ \A k \in Eligible \ Range(ResultIndices) :
       \A i \in 1..Len(search.result) : RanksBefore(ResultIndices[i], k)
  /\ Len(search.result) =
       IF search.limit > 0 /\ search.limit < Cardinality(Eligible)
         THEN search.limit ELSE Cardinality(Eligible)

\* The tool and the query share a word.
SharesTerm(k) ==
  LET tool == search.tools[k]
  IN WordsOf(ToLower(search.query))
       \cap (WordsOf(ToLower(tool.description))
               \cup UNION {WordsOf(ToLower(t)) : t \in Range(tool.tags)}) # {}

\* The whole query is part of a tag of the tool, or a tag is part of the query.
QueryWithinTag(k) ==
  \E t \in Range(search.tools[k].tags) :
    \/ Includes(ToLower(search.query), ToLower(t))
    \/ Includes(ToLower(t), ToLower(search.query))

\* C31 as stated: the result is the list of the eligible tools in rank
\* order, cut to limit, and no tool in it shares no term with the query.
C31_SearchResultRankedAndSharesTerm ==
  search.done =>
    /\ ResultIsRankedEligible
    /\ \A i \in 1..Len(search.result) : SharesTerm(ResultIndices[i])

\* C31, amended: the result is the list of the eligible tools in rank order,
\* cut to limit; a tool in it shares a word with the query, or the whole
\* query is part of one of its tags, or one of its tags is part of the query.
C31_Amended ==
  search.done =>
    /\ ResultIsRankedEligible
    /\ \A i \in 1..Len(search.result) :
         SharesTerm(ResultIndices[i]) \/ QueryWithinTag(ResultIndices[i])

\* A search with a tag filter that was cut to its limit, with two tools of
\* equal score of which the earlier one is returned, and with a tool of
\* positive score that the filter keeps out.
C31_Witness ==
  /\ search.done /\ search.limit = 1 /\ Len(search.result) = 1
  /\ search.anyOfTagsRequired # <<>>
  /\ \E k \in Eligible : k # ResultIndices[1] /\ SearchScore(k) = SearchScore(ResultIndices[1])
  /\ \E k \in 1..Len(search.tools) : ~HasRequiredTag(k) /\ SearchScore(k) > 0

Holders == {w \in Writers : mutex.writers[w].pc = "acquired"}

\* C32: at most one writer holds the write mutex, the mutex is held only
\* while a writer holds it (it is released after every section, also one
\* that throws), waiting writers queue in the order of their requests, and
\* the writes are applied in the order in which they were requested.
C32_WritesSerializedInOrder ==
  /\ Cardinality(Holders) <= 1
  /\ mutex.locked <=> Holders # {}
  /\ \A i, j \in 1..Len(mutex.queue) :
       i < j => mutex.writers[mutex.queue[i]].ticket < mutex.writers[mutex.queue[j]].ticket
  /\ \A w \in Holders : \A i \in 1..Len(mutex.queue) :
       mutex.writers[w].ticket < mutex.writers[mutex.queue[i]].ticket
  /\ \A i \in 1..Len(mutex.applied) : mutex.applied[i].ticket = i

\* A section has thrown, the next writer has made its write after it, and a
\* third writer holds the mutex while a fourth request waits.
C32_Witness ==
  /\ Len(mutex.applied) = 2 /\ mutex.applied[1].threw /\ ~mutex.applied[2].threw
  /\ Holders # {}
  /\ Len(mutex.queue) = 1

NsSources == <<nsLookup.config>> \o nsLookup.loaders \o <<nsLookup.env>>

\* The value of the key in the first source, in order of precedence, that
\* defines one of the keys.
FirstValueOf(keys) ==
  LET defining == {i \in 1..Len(NsSources) : DOMAIN NsSources[i] \cap keys # {}}
      first == CHOOSE i \in defining : \A j \in defining : i <= j
  IN IF defining = {} THEN [found |-> FALSE, value |-> "X"]
     ELSE [found |-> TRUE,
           value |-> IF "NS__X" \in DOMAIN NsSources[first] \cap keys
                       THEN NsSources[first]["NS__X"] ELSE NsSources[first]["X"]]

\* C33 as stated: when some source defines NS__X the lookup returns the
\* value of NS__X (of the first source that defines it), also when a source
\* of higher precedence defines X; the value of X is returned only when no
\* source defines NS__X.
C33_NamespacedKeyWinsOverall ==
  nsLookup.done =>
    nsLookup.result =
      IF \E i \in 1..Len(NsSources) : "NS__X" \in DOMAIN NsSources[i]
        THEN FirstValueOf({"NS__X"}) ELSE FirstValueOf({"X"})

\* C33, amended: the lookup returns the value from the first source, in
\* order of precedence, that defines NS__X or X, and within that source the
\* value of NS__X when it defines both; so the value of X of a source wins
\* over the value of NS__X of a source of lower precedence.
C33_Amended ==
  nsLookup.done => nsLookup.result = FirstValueOf({"NS__X", "X"})

\* The configuration defines only X, a dotenv file defines both keys and
\* the environment defines NS__X: the value of X of the configuration was
\* returned.
C33_Witness ==
  /\ nsLookup.done
  /\ DOMAIN nsLookup.config = {"X"}
  /\ Len(nsLookup.loaders) = 1 /\ DOMAIN nsLookup.loaders[1] = {"NS__X", "X"}
  /\ "NS__X" \in DOMAIN nsLookup.env
  /\ nsLookup.result = [found |-> TRUE, value |-> "config.X"]

\* C34: two different pairs of namespace and variable name never have the
\* same fully-qualified key, and substitute and findRequiredVariables build
\* the same key for a pair.
C34_KeysAreCollisionFree ==
  /\ \A k \in builtKeys : k.looked = k.required
  /\ \A k1, k2 \in builtKeys :
       k1.looked = k2.looked => k1.namespace = k2.namespace /\ k1.name = k2.name

\* C35: substituting a template that is the result of a substitution cannot
\* fail and gives the same template, whatever the values of the variables.
C35_SubstitutionIsIdempotent ==
  resub.done /\ resub.first.ok =>
    resub.second.ok /\ resub.second.value = resub.first.value

\* The validator a call returned is the discriminated union over the schemas
\* of all types registered at the call.
ReturnedUnionOverAll ==
  /\ unionSchema.returned.kind = "discriminatedUnion"
  /\ unionSchema.returned.options = unionSchema.schemas

\* C36 as stated: getCallTemplateUnionSchema returns the discriminated
\* union over every registered type when two or more types are registered,
\* and the base schema when none or one is.
C36_UnionOrBaseUpToOne ==
  unionSchema.called =>
    IF Cardinality(DOMAIN unionSchema.schemas) >= 2 THEN ReturnedUnionOverAll
    ELSE unionSchema.returned = BaseSchema

\* C36, amended: the discriminated union over every registered type for two
\* or more types, the base schema for none, and for exactly one registered
\* type the schema registered for it, which accepts that type only.
C36_Amended ==
  unionSchema.called =>
    IF Cardinality(DOMAIN unionSchema.schemas) >= 2 THEN ReturnedUnionOverAll
    ELSE IF Cardinality(DOMAIN unionSchema.schemas) = 1
      THEN /\ unionSchema.returned.kind = "object"
           /\ unionSchema.returned.options = unionSchema.schemas
    ELSE unionSchema.returned = BaseSchema

\* The call was made with one registered type and returned its schema, and a
\* second type has been registered since.
C36_Witness ==
  /\ unionSchema.called
  /\ unionSchema.schemas = [t \in {"http"} |-> "object1"]
  /\ unionSchema.returned = [kind |-> "object", options |-> unionSchema.schemas]
  /\ DOMAIN registry.schemas = {"http", "cli"}

\* C37: once a call has fetched a token, the cache entry holds the token the
\* call returned; and a call made while the entry is unexpired returns the
\* cached token and sends no token request.
C37_CacheHoldsReturnedToken ==
  /\ [](oauth.call.state = "returned" /\ oauth.call.fetched =>
          oauth.cache.has /\ oauth.cache.accessToken = oauth.call.token)
  /\ [][oauth'.call.n # oauth.call.n /\ CacheFresh =>
          /\ oauth'.requests = oauth.requests
          /\ oauth'.call.state = "returned"
          /\ oauth'.call.token = oauth.cache.accessToken]_vars

\* C38: an MCP operation made for a manual runs on a session created from
\* that manual's own sub-server configuration, and deregisterManual of a
\* manual closes only sessions created for it.
C38_ManualsShareNoSession ==
  /\ \A e \in mcpManuals.executions :
       mcpManuals.created[e.session] = [manual |-> e.manual, command |-> e.command]
  /\ \A c \in mcpManuals.closures :
       mcpManuals.created[c.session].manual = c.manual

\* The session keys of the sub-servers of a manual.
KeysOfManual(manual) ==
  {SessionKey(ManualServers[manual][i].name, ManualServers[manual][i].transport) :
     i \in DOMAIN ManualServers[manual]}

\* C39: between operations, every cached session is under the key of a
\* sub-server of a manual stored in the repository.
C39_CachedSessionsBelongToRegisteredManuals ==
  \A key \in DOMAIN mcpManuals.cache :
    \E manual \in mcpManuals.registered : key \in KeysOfManual(manual)

\* The stored manuals whose tool list holds the name.
ManualsListing(toolName) ==
  {m \in DOMAIN manuals : toolName \in ToolNamesOf(manuals[m])}

\* C40: whatever registerManual, deregisterManual and removeTool have done, a
\* tool name is in the global index exactly when the tool list of a stored
\* manual holds it; that manual is the only one and is named by the part of
\* the tool name before the first '.'; and call templates are stored under
\* the same names as manuals.
C40_IndexAgreesWithManuals ==
  /\ \A toolName \in DOMAIN toolsByName :
       ManualsListing(toolName) = {ManualNameOf(toolName)}
  /\ \A m \in DOMAIN manuals : ToolNamesOf(manuals[m]) \subseteq DOMAIN toolsByName
  /\ DOMAIN manualCallTemplates = DOMAIN manuals

\* A manual with a tool in the index is stored next to no other, and the
\* last call that settled was a deregisterManual that removed another
\* manual.
C40_Witness ==
  /\ Cardinality(DOMAIN manuals) = 1
  /\ \E m \in DOMAIN manuals : ToolNamesOf(manuals[m]) # {}
  /\ DOMAIN toolsByName # {}
  /\ lastResult.kind = "deregister" /\ lastResult.result = "true"
  /\ lastResult.arg \notin DOMAIN manuals

====
